---- MODULE Spec2Model ----
(***************************************************************************)
(* SubjectTopologicalSorter (src/src/persistence/SubjectTopologicalSorter.ts) *)
(* as a state machine: a caller holds an array of subjects over a schema   *)
(* of entity metadatas, constructs sorter instances from it and calls      *)
(* sort("insert" | "delete") on them.                                      *)
(***************************************************************************)
EXTENDS Integers, Sequences, FiniteSets, TLC

\* ------------------------------------------------------------------ bounds

\* longest subject array handed to a sorter
MaxSubjects == 3
\* relations with join columns plus "extends" links declared in the schema
MaxSchemaSize == 2
\* sort() calls made on one instance
MaxSorts == 2
\* latest reading of the clock in the cache specification
MaxTime == 1
\* latest reading of the clock in the specification of stale lookups
MaxLateTime == 2
\* longest duration (time to live) of a cache entry
MaxDuration == 1
\* longest list of identifiers passed to remove
MaxIdentifiers == 2

\* ------------------------------------------------------------------ data

\* targetName of the entity metadatas (one metadata object per name)
Names == {"A", "B", "C"}
\* subject.metadata === undefined
NoMeta == "undefined"
\* an entity without a parent class
NoParent == "none"
Directions == {"insert", "delete"}

\* a relation with a join column: owner metadata, inverseEntityMetadata, isNullable
RelationRecs == [from : Names, to : Names, isNullable : BOOLEAN]

\* a subject: its identity (position in the caller's array), its metadata and
\* whether it is a junction subject (!subject.entity && !subject.databaseEntity)
SubjectRecs == [id : 1..MaxSubjects, metadata : Names \cup {NoMeta}, junction : BOOLEAN]

NoError == [kind |-> "none", node |-> "none"]
TypeError == [kind |-> "TypeError", node |-> "none"]
CyclicError(node) == [kind |-> "CyclicDependency", node |-> node]
UnknownNodeError(node) == [kind |-> "UnknownNode", node |-> node]

VARIABLES
    relations,      \* schema: the relations with join columns, grouped by owner
    parent,         \* schema: parent[e] is the class e extends, or NoParent
    input,          \* the caller's array of subjects
    aliased,        \* TRUE iff this.subjects is the caller's array itself
    subjects,       \* this.subjects (when not aliased)
    metadatas,      \* this.metadatas
    pc,             \* "none" | "ready" | "done" | "threw"
    direction,      \* argument of the last sort call
    result,         \* array returned by the last sort call
    error,          \* error thrown by the last sort call
    calls,          \* sort calls made on the current instance
    original,       \* history: the caller's array as the caller built it
    sorters,        \* the instances whose sort calls run side by side
    clientType,     \* cache: "redis" | "ioredis" | "ioredis/cluster"
    library,        \* cache: what the loaded client module offers
    client,         \* cache: this.client, "undefined" or "client"
    redisMajorVersion,  \* cache: this.redisMajorVersion, NoVersion when undefined
    store,          \* backend database: key -> {} or {[text, expiresAt]}
    now,            \* the clock, in milliseconds
    inflight,       \* backend commands sent and not yet answered
    op,             \* the last cache call and how it has settled so far
    lastStored,     \* history: key -> the record the backend holds for it
    isReleased,     \* query runner: this.isReleased
    isTransactionActive,    \* query runner: this.isTransactionActive
    databaseConnection,     \* query runner: this.databaseConnection
    autoCommit,     \* the connection's autocommit setting, "on" | "off"
    transactionSupport,     \* this.driver.transactionSupport
    lock,           \* this.lock: the calls queued for it, the holder first
    executing,      \* statements handed to the connection and not yet answered
    invocations,    \* the calls made on the query runner, in the order made
    graph,          \* the edge list handed to toposort
    order           \* what toposort returned for it

\* the fields of the one instance of Spec
instanceVars == <<aliased, subjects, metadatas, pc, direction, result, error, calls>>

\* the instances of SpecInterleaved
pairVars == <<sorters>>

\* the result cache and its backend
cacheVars == <<clientType, library, client, redisMajorVersion, store, now,
               inflight, op, lastStored>>

\* the query runner and its connection
runnerVars == <<isReleased, isTransactionActive, databaseConnection, autoCommit,
                transactionSupport, lock, executing, invocations>>

\* toposort applied to an edge list of its own
graphVars == <<graph, order>>

vars == <<relations, parent, input, original, instanceVars, pairVars, cacheVars,
          runnerVars, graphVars>>

\* ------------------------------------------------------------------ arrays

\* Array.prototype.indexOf: first position of x, 0 when absent (JS: -1)
IndexOf(arr, x) ==
    IF \E i \in 1..Len(arr) : arr[i] = x
    THEN CHOOSE i \in 1..Len(arr) : arr[i] = x /\ \A j \in 1..(i - 1) : arr[j] # x
    ELSE 0

Includes(arr, x) == IndexOf(arr, x) > 0

\* arr.splice(index, 1) with index as indexOf returned it; JS indexOf's -1
\* makes splice count from the end and remove the last element
Splice1(arr, idx) ==
    LET at == IF idx = 0 THEN Len(arr) ELSE idx
    IN  IF Len(arr) = 0 THEN arr
        ELSE [i \in 1..(Len(arr) - 1) |-> IF i < at THEN arr[i] ELSE arr[i + 1]]

\* Array.prototype.reverse
Reverse(arr) == [i \in 1..Len(arr) |-> arr[Len(arr) + 1 - i]]

\* ------------------------------------------------------------------ schema

\* metadata.relationsWithJoinColumns
relationsWithJoinColumns(metadata) ==
    LET owned(r) == r.from = metadata
    IN  SelectSeq(relations, owned)

\* metadata.inheritanceTree, as the names of the class and of its ancestors,
\* most derived first
RECURSIVE inheritanceTree(_)
inheritanceTree(metadata) ==
    IF parent[metadata] = NoParent THEN <<metadata>>
    ELSE <<metadata>> \o inheritanceTree(parent[metadata])

\* ------------------------------------------------------------------ sorter

\* getUniqueMetadatas (lines 116-123): indexOf/push over subject.metadata; an
\* undefined metadata is pushed like any other value
RECURSIVE getUniqueMetadatasFrom(_, _, _)
getUniqueMetadatasFrom(subs, k, metas) ==
    IF k > Len(subs) THEN metas
    ELSE getUniqueMetadatasFrom(subs, k + 1,
            IF IndexOf(metas, subs[k].metadata) = 0
            THEN Append(metas, subs[k].metadata) ELSE metas)

\* faulty variant: subjects without metadata are skipped
getUniqueMetadatasSkippingUndefined(subs) ==
    LET defined(m) == m # NoMeta
    IN  SelectSeq(getUniqueMetadatasFrom(subs, 1, <<>>), defined)

getUniqueMetadatas(subs) == getUniqueMetadatasFrom(subs, 1, <<>>)

\* the early return of line 132: a nullable relation adds no edge
keptAsNonNullable(relation) == ~relation.isNullable

\* the early return of line 151: a self-referenced relation adds no edge
keptAsDependency(relation) == relation.to # relation.from

\* edges [metadata.targetName, relation.inverseEntityMetadata.targetName] of
\* one metadata's relations, in the order of relationsWithJoinColumns
RECURSIVE edgesOf(_, _, _, _)
edgesOf(metadata, rels, k, nonNullableOnly) ==
    IF k > Len(rels) THEN <<>>
    ELSE LET kept == IF nonNullableOnly THEN keptAsNonNullable(rels[k])
                     ELSE keptAsDependency(rels[k])
         IN  (IF kept THEN <<<<metadata, rels[k].to>>>> ELSE <<>>)
             \o edgesOf(metadata, rels, k + 1, nonNullableOnly)

\* this.metadatas.reduce(...) of lines 130 and 148
RECURSIVE reduceEdges(_, _, _)
reduceEdges(metas, k, nonNullableOnly) ==
    IF k > Len(metas) THEN <<>>
    ELSE edgesOf(metas[k], relationsWithJoinColumns(metas[k]), 1, nonNullableOnly)
         \o reduceEdges(metas, k + 1, nonNullableOnly)

\* reading metadata.relationsWithJoinColumns of an undefined metadata throws
readsUndefined(metas) == \E k \in 1..Len(metas) : metas[k] = NoMeta

\* getNonNullableDependencies (lines 129-141)
getNonNullableDependencies(metas) ==
    IF readsUndefined(metas) THEN [err |-> TypeError, edges |-> <<>>]
    ELSE [err |-> NoError, edges |-> reduceEdges(metas, 1, TRUE)]

\* getDependencies (lines 147-160)
\* faulty variant: the nullable relations are left out of the second graph
getDependenciesNonNullableOnly(metas) == getNonNullableDependencies(metas)

getDependencies(metas) ==
    IF readsUndefined(metas) THEN [err |-> TypeError, edges |-> <<>>]
    ELSE [err |-> NoError, edges |-> reduceEdges(metas, 1, FALSE)]

\* uniqueNodes (lines 168-176): first-seen order, edge[0] then edge[1]
RECURSIVE uniqueNodesFrom(_, _, _)
uniqueNodesFrom(arr, k, res) ==
    IF k > Len(arr) THEN res
    ELSE LET r1 == IF IndexOf(res, arr[k][1]) = 0 THEN Append(res, arr[k][1]) ELSE res
             r2 == IF IndexOf(r1, arr[k][2]) = 0 THEN Append(r1, arr[k][2]) ELSE r1
         IN  uniqueNodesFrom(arr, k + 1, r2)

\* faulty variant: only edge[0] is collected
uniqueNodesSourcesOnly(arr) ==
    LET sourceOnly(edge) == <<edge[1], edge[1]>>
    IN  uniqueNodesFrom([k \in 1..Len(arr) |-> sourceOnly(arr[k])], 1, <<>>)

uniqueNodes(arr) == uniqueNodesFrom(arr, 1, <<>>)

\* an unfilled slot of new Array(cursor)
Hole == "<empty>"

\* faulty variant: the test for a cycle never fires
isPredecessorNever(predecessors, node) == FALSE

\* the test of line 189: node is on the path of the current descent
isPredecessor(predecessors, node) == Includes(predecessors, node)

\* visit (lines 188-218). t is the state shared by the closure: sorted, cursor,
\* visited and the error thrown, if any; i is the 1-based index of node in nodes
RECURSIVE visit(_, _, _, _, _, _)
RECURSIVE visitChildren(_, _, _, _, _, _)
visit(edges, nodes, t, node, i, predecessors) ==
    IF t.err # NoError THEN t
    ELSE IF isPredecessor(predecessors, node) THEN [t EXCEPT !.err = CyclicError(node)]
    ELSE IF IndexOf(nodes, node) = 0 THEN [t EXCEPT !.err = UnknownNodeError(node)]
    ELSE IF i \in t.visited THEN t
    ELSE LET from(edge) == edge[1] = node
             outgoing == SelectSeq(edges, from)
             t1 == [t EXCEPT !.visited = @ \cup {i}]
             t2 == visitChildren(edges, nodes, t1, outgoing, Len(outgoing),
                                 Append(predecessors, node))
         IN  IF t2.err # NoError THEN t2
             ELSE [t2 EXCEPT !.sorted[t2.cursor] = node, !.cursor = @ - 1]

\* the do/while of lines 211-214: children from the last outgoing edge to the first
visitChildren(edges, nodes, t, outgoing, k, preds) ==
    IF k = 0 \/ t.err # NoError THEN t
    ELSE visitChildren(edges, nodes,
            visit(edges, nodes, t, outgoing[k][2], IndexOf(nodes, outgoing[k][2]), preds),
            outgoing, k - 1, preds)

\* faulty variant: the roots are taken from the first node to the last
RECURSIVE visitRootsForwardFrom(_, _, _, _, _)
visitRootsForwardFrom(edges, nodes, t, i, k) ==
    IF k > i \/ t.err # NoError THEN t
    ELSE visitRootsForwardFrom(edges, nodes,
            IF k \in t.visited THEN t ELSE visit(edges, nodes, t, nodes[k], k, <<>>),
            i, k + 1)

visitRootsForward(edges, nodes, t, i) == visitRootsForwardFrom(edges, nodes, t, i, 1)

\* the while (i--) loop of lines 184-186: roots from the last node to the first
RECURSIVE visitRoots(_, _, _, _)
visitRoots(edges, nodes, t, i) ==
    IF i = 0 \/ t.err # NoError THEN t
    ELSE visitRoots(edges, nodes,
            IF i \in t.visited THEN t ELSE visit(edges, nodes, t, nodes[i], i, <<>>),
            i - 1)

\* faulty variant: only the node discovered last is taken as a root
toposortFromLastRoot(edges) ==
    LET nodes == uniqueNodes(edges)
        t0 == [sorted |-> [k \in 1..Len(nodes) |-> Hole], cursor |-> Len(nodes),
               visited |-> {}, err |-> NoError]
        t == IF Len(nodes) = 0 THEN t0
             ELSE visit(edges, nodes, t0, nodes[Len(nodes)], Len(nodes), <<>>)
    IN  [err |-> t.err, sorted |-> t.sorted]

\* toposort (lines 167-221)
toposort(edges) ==
    LET nodes == uniqueNodes(edges)
        t0 == [sorted |-> [k \in 1..Len(nodes) |-> Hole], cursor |-> Len(nodes),
               visited |-> {}, err |-> NoError]
        t == visitRoots(edges, nodes, t0, Len(nodes))
    IN  [err |-> t.err, sorted |-> t.sorted]

\* removeAlreadySorted (lines 107-111): splice(indexOf(subject), 1) per subject
RECURSIVE removeAlreadySortedFrom(_, _, _)
removeAlreadySortedFrom(working, removed, k) ==
    IF k > Len(removed) THEN working
    ELSE removeAlreadySortedFrom(Splice1(working, IndexOf(working, removed[k])),
                                 removed, k + 1)

\* faulty variant: only the first subject of the group is spliced out
removeAlreadySortedFirstOnly(working, removed) ==
    IF Len(removed) = 0 THEN working
    ELSE Splice1(working, IndexOf(working, removed[1]))

removeAlreadySorted(working, removed) == removeAlreadySortedFrom(working, removed, 1)

\* the filter of lines 49-51
isJunctionSubject(subject) == subject.junction

\* faulty variant: the inheritance tree is not consulted
matchesOwnTargetOnly(subject, sortedEntityTarget) ==
    subject.metadata = sortedEntityTarget

\* the filter of lines 69-75: own target name or a name in the inheritance tree
matchesNonNullableTarget(subject, sortedEntityTarget) ==
    \/ subject.metadata = sortedEntityTarget
    \/ Includes(inheritanceTree(subject.metadata), sortedEntityTarget)

\* the filter of lines 88-90: own target name only
matchesOtherTarget(subject, sortedEntityTarget) ==
    subject.metadata = sortedEntityTarget

\* the forEach of lines 68-78 and 87-93 over the sorted entity targets. w is the
\* call's state: this.subjects, sortedSubjects and the error thrown, if any.
\* subject.metadata.targetName of a subject without metadata throws
RECURSIVE pullGroups(_, _, _, _)
pullGroups(w, targets, k, withInheritance) ==
    IF k > Len(targets) \/ w.err # NoError THEN w
    ELSE IF \E j \in 1..Len(w.subjects) : w.subjects[j].metadata = NoMeta
         THEN [w EXCEPT !.err = TypeError]
    ELSE LET inGroup(subject) ==
                 IF withInheritance THEN matchesNonNullableTarget(subject, targets[k])
                 ELSE matchesOtherTarget(subject, targets[k])
             entityTargetSubjects == SelectSeq(w.subjects, inGroup)
         IN  pullGroups([w EXCEPT !.sortedSubjects = @ \o entityTargetSubjects,
                                  !.subjects = removeAlreadySorted(@, entityTargetSubjects)],
                        targets, k + 1, withInheritance)

\* faulty variant: the junction subjects are taken first on insert, not on delete
junctionStepOnInsert(w, dir) ==
    IF dir = "insert"
    THEN LET junctionSubjects == SelectSeq(w.subjects, isJunctionSubject)
         IN  [w EXCEPT !.sortedSubjects = @ \o junctionSubjects,
                       !.subjects = removeAlreadySorted(@, junctionSubjects)]
    ELSE w

\* lines 46-54
junctionStep(w, dir) ==
    IF dir = "delete"
    THEN LET junctionSubjects == SelectSeq(w.subjects, isJunctionSubject)
         IN  [w EXCEPT !.sortedSubjects = @ \o junctionSubjects,
                       !.subjects = removeAlreadySorted(@, junctionSubjects)]
    ELSE w

\* faulty variant: the reversal for insert is missing
orientNeverReversed(sortedTargets, dir) == sortedTargets

\* faulty variant: the sorted targets are reversed for delete as well
orientAlwaysReversed(sortedTargets, dir) == Reverse(sortedTargets)

\* lines 61-63 and 84-85
orient(sortedTargets, dir) ==
    IF dir = "insert" THEN Reverse(sortedTargets) ELSE sortedTargets

\* faulty variant: the non-nullable pass is left out
nonNullablePassSkipped(w, metas, dir) == w

\* lines 56-78
nonNullablePass(w, metas, dir) ==
    LET deps == getNonNullableDependencies(metas)
        topo == toposort(deps.edges)
    IN  IF w.err # NoError THEN w
        ELSE IF deps.err # NoError THEN [w EXCEPT !.err = deps.err]
        ELSE IF topo.err # NoError THEN [w EXCEPT !.err = topo.err]
        ELSE pullGroups(w, orient(topo.sorted, dir), 1, TRUE)

\* faulty variant: the second pass is left out
otherPassSkipped(w, metas, dir) == w

\* lines 80-93
otherPass(w, metas, dir) ==
    LET deps == getDependencies(metas)
        topo == toposort(deps.edges)
    IN  IF w.err # NoError THEN w
        ELSE IF deps.err # NoError THEN [w EXCEPT !.err = deps.err]
        ELSE IF topo.err # NoError THEN [w EXCEPT !.err = topo.err]
        ELSE pullGroups(w, orient(topo.sorted, dir), 1, FALSE)

\* sort (lines 40-98) on an instance whose this.subjects is working and whose
\* this.metadatas is metas: this.subjects afterwards, the array returned and
\* the error thrown
sort(working, metas, dir) ==
    IF Len(metas) = 0
    THEN [subjects |-> working, returned |-> working, err |-> NoError]
    ELSE LET w0 == [subjects |-> working, sortedSubjects |-> <<>>, err |-> NoError]
             w1 == junctionStep(w0, dir)
             w2 == nonNullablePass(w1, metas, dir)
             w3 == otherPass(w2, metas, dir)
         IN  IF w3.err # NoError
             THEN [subjects |-> w3.subjects, returned |-> <<>>, err |-> w3.err]
             ELSE [subjects |-> w3.subjects,
                   returned |-> w3.sortedSubjects \o w3.subjects, err |-> NoError]

\* ------------------------------------------------------------------ instance

\* this.subjects: the instance's own array, or the caller's when aliased
thisSubjects == IF aliased THEN input ELSE subjects

\* faulty variant: this.subjects = subjects, the caller's array itself
constructorKeepingArray(arr) ==
    [aliased |-> TRUE, subjects |-> arr, metadatas |-> getUniqueMetadatas(arr)]

\* constructor (lines 28-31): [...subjects] is a fresh array with the same
\* elements, and the metadatas are collected from it
constructor(arr) ==
    [aliased |-> FALSE, subjects |-> arr, metadatas |-> getUniqueMetadatas(arr)]

\* ------------------------------------------------------------------ result cache: values

\* JavaScript values of the fields of QueryResultCacheOptions
Undefined == [t |-> "undefined", v |-> ""]
StringOf(str) == [t |-> "string", v |-> str]
\* an array of raw rows whose cells are of the given kind ("string" or "Date")
RowsOf(cell) == [t |-> "array", v |-> cell]

\* the strings callers use as identifier or as query text
CacheKeys == {"K1", "K2"}
\* a key of the same database that the cache never writes
ForeignKey == "other"
BackendKeys == CacheKeys \cup {ForeignKey}

\* faulty variant: only undefined counts, the empty string is taken as a key
FalsyUndefinedOnly(x) == x.t = "undefined"

\* x is falsy for || and ! (undefined or the empty string)
Falsy(x) == x.t = "undefined" \/ (x.t = "string" /\ x.v = "")

\* faulty variant: the query text is preferred to the identifier
keyOfQueryFirst(options) ==
    IF Falsy(options.query) THEN options.identifier ELSE options.query

\* options.identifier || options.query (lines 166 and 200)
keyOf(options) == IF Falsy(options.identifier) THEN options.query ELSE options.identifier

\* a member of a JSON object: omitted, or a JSON string, or a JSON array
Omitted == [m |-> "omitted", v |-> ""]

\* JSON.stringify of one field value: undefined is omitted, a Date is written
\* as its ISO string, the cells of an array likewise
stringifyValue(x) ==
    CASE x.t = "undefined" -> Omitted
      [] x.t = "string" -> [m |-> "string", v |-> x.v]
      [] x.t = "Date" -> [m |-> "string", v |-> x.v]
      [] x.t = "array" -> [m |-> "array", v |-> "string"]

\* JSON.parse of one member: what was omitted reads as undefined
parseMember(j) ==
    CASE j.m = "omitted" -> Undefined
      [] j.m = "string" -> StringOf(j.v)
      [] j.m = "array" -> RowsOf(j.v)

\* faulty variant: the creation time is not written
stringifyWithoutTime(options) ==
    [parsable |-> TRUE,
     identifier |-> stringifyValue(options.identifier),
     query |-> stringifyValue(options.query),
     time |-> 0,
     duration |-> options.duration,
     result |-> stringifyValue(options.result)]

\* JSON.stringify(options), line 203: the text of one JSON object
stringify(options) ==
    [parsable |-> TRUE,
     identifier |-> stringifyValue(options.identifier),
     query |-> stringifyValue(options.query),
     time |-> options.time,
     duration |-> options.duration,
     result |-> stringifyValue(options.result)]

\* a text that is no JSON document
Garbage ==
    [parsable |-> FALSE, identifier |-> Omitted, query |-> Omitted,
     time |-> 0, duration |-> 0, result |-> Omitted]

\* a JSON document written under ForeignKey by another user of the database
ForeignText ==
    [parsable |-> TRUE, identifier |-> Omitted, query |-> Omitted,
     time |-> 0, duration |-> 0, result |-> [m |-> "string", v |-> "foreign"]]

NoEntry ==
    [identifier |-> Undefined, query |-> Undefined, time |-> 0, duration |-> 0,
     result |-> Undefined]

\* JSON.parse(text), lines 172 and 180: the record, or a SyntaxError
parse(text) ==
    IF ~text.parsable
    THEN [err |-> "SyntaxError", value |-> NoEntry]
    ELSE [err |-> "none",
          value |-> [identifier |-> parseMember(text.identifier),
                     query |-> parseMember(text.query),
                     time |-> text.time,
                     duration |-> text.duration,
                     result |-> parseMember(text.result)]]

\* faulty variant: a text that does not parse reads as an empty record
parseLenient(text) ==
    [err |-> "none", value |-> parse([text EXCEPT !.parsable = TRUE]).value]

\* faulty variant: an entry is expired as soon as its duration has elapsed
isExpiredAtDeadline(savedCache, t) == savedCache.time + savedCache.duration <= t

\* isExpired (lines 188-190) at clock reading t
isExpired(savedCache, t) == savedCache.time + savedCache.duration < t

\* ------------------------------------------------------------------ result cache: client

\* this.redisMajorVersion is undefined
NoVersion == 0
\* the versions detectRedisVersion records (lines 315 and 318)
Redis5 == 5
Redis3 == 3
\* most parameters the set method of a promise-style client declares (line 313)
PromiseSetArity == 3
\* the client has no set method
NoSetMethod == -1
\* the entry was written without a time to live
NoExpiry == -1

\* isRedis5OrHigher (lines 329-334)
isRedis5OrHigherOf(type, version) ==
    type = "redis" /\ version # NoVersion /\ version >= Redis5

\* faulty variant: every client that recorded version 5 counts
isRedis5OrHigherAnyType(type, version) == version # NoVersion /\ version >= Redis5

\* faulty variant: a set method of exactly three parameters counts as the old one
detectRedisVersionBelow(type, lib, version) ==
    IF type # "redis" THEN version
    ELSE IF lib.setLength # NoSetMethod /\ lib.setLength < PromiseSetArity
         THEN Redis5
         ELSE Redis3

\* the version detectRedisVersion (lines 306-324) leaves in this.redisMajorVersion
detectRedisVersion(type, lib, version) ==
    IF type # "redis" THEN version
    ELSE IF lib.setLength # NoSetMethod /\ lib.setLength <= PromiseSetArity
         THEN Redis5
         ELSE Redis3

\* what the module loaded by loadRedis (lines 288-300) offers: whether its
\* clients have a connect method, how many parameters their set declares, and
\* whether the cache options name the nodes of the cluster
Libraries ==
    { [type |-> "redis", hasConnect |-> FALSE, setLength |-> 5, nodes |-> FALSE],
      [type |-> "redis", hasConnect |-> TRUE, setLength |-> PromiseSetArity, nodes |-> FALSE],
      [type |-> "ioredis", hasConnect |-> TRUE, setLength |-> PromiseSetArity, nodes |-> FALSE],
      [type |-> "ioredis/cluster", hasConnect |-> TRUE, setLength |-> 4, nodes |-> FALSE] }

\* no call made yet
NoCall ==
    [name |-> "none", status |-> "none", style |-> "none", key |-> "", by |-> "none",
     identifiers |-> <<>>, value |-> {}, error |-> "none", issued |-> <<>>,
     stored |-> {},
     flag |-> FALSE, readAt |-> 0, failed |-> FALSE]

\* the specifications of the sorter have no cache
InitNoCache ==
    /\ clientType = "redis"
    /\ library = [type |-> "redis", hasConnect |-> FALSE, setLength |-> 5, nodes |-> FALSE]
    /\ client = "undefined"
    /\ redisMajorVersion = NoVersion
    /\ store = [k \in BackendKeys |-> {}]
    /\ now = 0
    /\ inflight = {}
    /\ op = NoCall
    /\ lastStored = [k \in CacheKeys |-> {}]

\* ------------------------------------------------------------ query runner: values

\* calls made on one query runner
MaxCalls == 3

Calls == 1 .. MaxCalls

\* the values of this.driver.transactionSupport (line 112)
TransactionSupports == {"simple", "nested"}

\* a call not made yet
NoInvocation ==
    [method |-> "none", pc |-> "idle", status |-> "none", error |-> "none",
     sql |-> "", isolationLevel |-> FALSE, obtaining |-> FALSE, thrown |-> "none",
     interfered |-> FALSE, statement |-> FALSE]

\* the specifications of the sorter and of the cache have no query runner
InitNoRunner ==
    /\ isReleased = FALSE
    /\ isTransactionActive = FALSE
    /\ databaseConnection = "undefined"
    /\ autoCommit = "on"
    /\ transactionSupport = "simple"
    /\ lock = <<>>
    /\ executing = {}
    /\ invocations = [i \in Calls |-> NoInvocation]

\* what toposort returns: the sorted nodes, or the error it threw
NoOrder == [sorted |-> <<>>, err |-> NoError, applied |-> FALSE]

\* no edge list was handed to toposort on its own
InitNoGraph ==
    /\ graph = <<>>
    /\ order = NoOrder

\* the methods that refuse to run on a released query runner
GuardedMethods ==
    {"query", "stream", "startTransaction", "commitTransaction", "rollbackTransaction"}

\* faulty variant: the release check is left out of the transaction methods
thrownOnEntryUnlessQuery(method, released, active, support) ==
    IF method \in {"query", "stream"} /\ released
    THEN "QueryRunnerAlreadyReleasedError"
    ELSE IF method = "startTransaction" /\ active /\ support = "simple"
    THEN "TransactionAlreadyStartedError"
    ELSE IF method \in {"commitTransaction", "rollbackTransaction"} /\ ~active
    THEN "TransactionNotStartedError"
    ELSE "none"

\* the error a method throws before its first await, "none" when it goes on
\* (lines 108-114, 140-142, 158-160, 196, 337)
thrownOnEntry(method, released, active, support) ==
    IF method \in GuardedMethods /\ released
    THEN "QueryRunnerAlreadyReleasedError"
    ELSE IF method = "startTransaction" /\ active /\ support = "simple"
    THEN "TransactionAlreadyStartedError"
    ELSE IF method \in {"commitTransaction", "rollbackTransaction"} /\ ~active
    THEN "TransactionNotStartedError"
    ELSE "none"

\* faulty variant: the flag survives COMMIT and ROLLBACK
activeKeptAfterStatement(method) == TRUE

\* this.isTransactionActive as the method assigns it (lines 118, 147, 165)
activeAfter(method) == method = "startTransaction"

\* the status a method hands to setAutoCommit (lines 124, 149, 167)
autoCommitFor(method) == IF method = "startTransaction" THEN "off" ELSE "on"

\* the statement setAutoCommit runs (line 179)
autoCommitStatement(status) ==
    IF status = "on" THEN "SET TRANSACTION AUTOCOMMIT DDL ON"
    ELSE "SET TRANSACTION AUTOCOMMIT DDL OFF"

\* the statement a method runs through this.query (lines 127, 146, 164)
statementOf(method, isolationLevel) ==
    CASE method = "commitTransaction" -> "COMMIT"
      [] method = "rollbackTransaction" -> "ROLLBACK"
      [] method = "startTransaction" ->
            IF isolationLevel THEN "SET TRANSACTION ISOLATION LEVEL" ELSE ""
      [] OTHER -> "SELECT"

\* a call made: its promise is pending
called(method, isolationLevel) ==
    [NoInvocation EXCEPT !.method = method, !.status = "pending",
                         !.isolationLevel = isolationLevel,
                         !.sql = statementOf(method, isolationLevel)]

\* the promise of a call settles, and what the call kept for itself is gone
settled(inv, status, err) ==
    [inv EXCEPT !.pc = "done", !.status = status, !.error = err,
                !.obtaining = FALSE, !.thrown = "none", !.interfered = FALSE,
                !.statement = FALSE]

rejected(inv, err) == settled(inv, "rejected", err)

resolved(inv) == settled(inv, "resolved", "none")

\* history: the calls in progress other than i saw the transaction state of
\* the runner written by call i
interferedBy(invs, i) ==
    [j \in Calls |-> IF j # i /\ invs[j].status = "pending"
                     THEN [invs[j] EXCEPT !.interfered = TRUE] ELSE invs[j]]

\* QueryLock: the calls that asked for the lock and have not released it, in
\* the order they asked; acquire puts the call at the end
acquiring(queue, i) == Append(queue, i)

\* the lock is granted to a call once every call that asked before it has
\* released it
granted(queue, i) == queue # <<>> /\ Head(queue) = i

\* the queue of the lock once call i released it
released(queue, i) == SelectSeq(queue, LAMBDA j : j # i)

\* ------------------------------------------------------------------ inputs

Rank(name) == CASE name = "A" -> 1 [] name = "B" -> 2 [] name = "C" -> 3

\* the schema's relations, listed owner by owner; the order within one owner
\* is the order of its relationsWithJoinColumns
RelationLists ==
    { rels \in UNION { [1..n -> RelationRecs] : n \in 0..MaxSchemaSize } :
        \A k \in 1..(Len(rels) - 1) : Rank(rels[k].from) <= Rank(rels[k + 1].from) }

RECURSIVE reachesItself(_, _, _)
reachesItself(p, start, at) ==
    IF p[at] = NoParent THEN FALSE
    ELSE IF p[at] = start THEN TRUE
    ELSE reachesItself(p, start, p[at])

\* class hierarchies: at most one parent each, no class its own ancestor
ParentMaps ==
    { p \in [Names -> Names \cup {NoParent}] :
        /\ \A e \in Names : p[e] # e
        /\ \A e \in Names : p[e] # NoParent => p[p[e]] # e
        /\ \A e \in Names : ~reachesItself(p, e, e) }

SchemaSize(rels, p) == Len(rels) + Cardinality({e \in Names : p[e] # NoParent})

\* subject arrays: distinct subject objects, identified by their position; a
\* subject without metadata is a junction subject
SubjectArrays ==
    UNION { { arr \in [1..n -> SubjectRecs] :
                \A k \in 1..n : /\ arr[k].id = k
                                /\ arr[k].metadata = NoMeta => arr[k].junction } :
            n \in 0..MaxSubjects }

MetadataNamesOf(arr) == { arr[k].metadata : k \in 1..Len(arr) } \ {NoMeta}

\* the classes named by the inheritance trees of the array's metadatas
RECURSIVE ancestorsOf(_, _)
ancestorsOf(p, e) ==
    IF p[e] = NoParent THEN {} ELSE {p[e]} \cup ancestorsOf(p, p[e])

RelevantNames(p, arr) ==
    MetadataNamesOf(arr) \cup UNION { ancestorsOf(p, e) : e \in MetadataNamesOf(arr) }

\* The sorter compares names only for equality, so the entities of the array
\* are named in order of first appearance. Classes that are neither a metadata
\* of the array nor an ancestor of one declare nothing: the sorter reaches
\* relations and inheritance trees only through the subjects' metadatas.
FirstAppearanceOrder(arr) ==
    \A k \in 1..Len(arr) :
        arr[k].metadata # NoMeta =>
            \A e \in Names : Rank(e) < Rank(arr[k].metadata) =>
                \E j \in 1..(k - 1) : arr[j].metadata = e

NoUnreadParent(p, arr) ==
    \A e \in Names : p[e] # NoParent => e \in RelevantNames(p, arr)

NoUnreadRelation(rels, p, arr) ==
    \A k \in 1..Len(rels) : rels[k].from \in RelevantNames(p, arr)

\* ------------------------------------------------------------------ actions

\* the caller's array and the schema its subjects belong to
InitCaller ==
    /\ input \in SubjectArrays
    /\ FirstAppearanceOrder(input)
    /\ parent \in ParentMaps
    /\ NoUnreadParent(parent, input)
    /\ relations \in RelationLists
    /\ NoUnreadRelation(relations, parent, input)
    /\ SchemaSize(relations, parent) <= MaxSchemaSize
    /\ original = input

\* no instance made yet
InitNoInstance ==
    /\ aliased = FALSE
    /\ subjects = <<>>
    /\ metadatas = <<>>
    /\ pc = "none"
    /\ direction = "none"
    /\ result = <<>>
    /\ error = NoError
    /\ calls = 0

Init ==
    /\ InitCaller
    /\ InitNoInstance
    /\ sorters = <<>>
    /\ InitNoCache
    /\ InitNoRunner
    /\ InitNoGraph

\* new SubjectTopologicalSorter(input): the caller makes an instance from its
\* array, the first one or another one after it used the previous instance
Construct ==
    /\ pc # "ready"
    /\ LET this == constructor(input)
       IN  /\ aliased' = this.aliased
           /\ subjects' = this.subjects
           /\ metadatas' = this.metadatas
    /\ pc' = "ready"
    /\ direction' = "none"
    /\ result' = <<>>
    /\ error' = NoError
    /\ calls' = 0
    /\ UNCHANGED <<relations, parent, input, original, pairVars, cacheVars,
                   runnerVars, graphVars>>

\* instance.sort(dir): the whole synchronous call, returning or throwing
Sort(dir) ==
    /\ pc \in {"ready", "done", "threw"}
    /\ calls < MaxSorts
    /\ \E r \in {sort(thisSubjects, metadatas, dir)} :
           /\ IF aliased
              THEN input' = r.subjects /\ subjects' = subjects
              ELSE subjects' = r.subjects /\ input' = input
           /\ result' = r.returned
           /\ error' = r.err
           /\ pc' = IF r.err = NoError THEN "done" ELSE "threw"
    /\ direction' = dir
    /\ calls' = calls + 1
    /\ UNCHANGED <<relations, parent, aliased, metadatas, original, pairVars,
                   cacheVars, runnerVars, graphVars>>

Next ==
    \/ Construct
    \/ \E dir \in Directions : Sort(dir)

Spec == Init /\ [][Next]_vars

TypeOK ==
    /\ pc \in {"none", "ready", "done", "threw"}
    /\ calls \in 0..MaxSorts
    /\ direction \in Directions \cup {"none"}
    /\ Len(input) <= MaxSubjects

\* ------------------------------------------------------------------ two instances side by side

\* the instances made from the one caller's array
Instances == {"first", "second"}

\* new SubjectTopologicalSorter(arr), not yet asked to sort
newSorter(arr) ==
    LET this == constructor(arr)
    IN  [aliased |-> this.aliased, subjects |-> this.subjects,
         metadatas |-> this.metadatas, pc |-> "ready", direction |-> "none",
         sortedSubjects |-> <<>>, result |-> <<>>, error |-> NoError]

\* this.subjects of an instance: its own array, or the caller's when aliased
subjectsOf(s) == IF s.aliased THEN input ELSE s.subjects

\* the working state a step of sort reads
workOf(s) == [subjects |-> subjectsOf(s), sortedSubjects |-> s.sortedSubjects,
              err |-> NoError]

\* the instance after a step left the working state w and moved to stage
afterStep(s, w, stage) ==
    IF w.err # NoError
    THEN [s EXCEPT !.pc = "threw", !.error = w.err]
    ELSE [s EXCEPT !.pc = stage, !.sortedSubjects = w.sortedSubjects,
                   !.subjects = IF s.aliased THEN @ ELSE w.subjects]

\* the caller's array after a step: written only through an aliased instance
inputAfter(s, w) == IF s.aliased /\ w.err = NoError THEN w.subjects ELSE input

\* both instances are made from the caller's array before either sorts
InitInterleaved ==
    /\ InitCaller
    /\ InitNoInstance
    /\ sorters = [i \in Instances |-> newSorter(input)]
    /\ InitNoCache
    /\ InitNoRunner
    /\ InitNoGraph

\* sort(dir), lines 40-54: the early return for an instance without metadatas,
\* else the junction step
SortJunctions(i, dir) ==
    /\ sorters[i].pc = "ready"
    /\ LET s == [sorters[i] EXCEPT !.direction = dir]
       IN  IF Len(s.metadatas) = 0
           THEN /\ sorters' = [sorters EXCEPT ![i] =
                                [s EXCEPT !.pc = "done", !.result = subjectsOf(s)]]
                /\ input' = input
           ELSE \E w \in {junctionStep(workOf(s), dir)} :
                    /\ sorters' = [sorters EXCEPT ![i] = afterStep(s, w, "nonNullable")]
                    /\ input' = inputAfter(s, w)
    /\ UNCHANGED <<relations, parent, original, instanceVars, cacheVars,
                   runnerVars, graphVars>>

\* sort, lines 56-78: the pass over the non-nullable dependencies
SortNonNullable(i) ==
    /\ sorters[i].pc = "nonNullable"
    /\ LET s == sorters[i]
       IN  \E w \in {nonNullablePass(workOf(s), s.metadatas, s.direction)} :
               /\ sorters' = [sorters EXCEPT ![i] = afterStep(s, w, "others")]
               /\ input' = inputAfter(s, w)
    /\ UNCHANGED <<relations, parent, original, instanceVars, cacheVars,
                   runnerVars, graphVars>>

\* sort, lines 80-97: the pass over the other dependencies, then the return of
\* the sorted subjects followed by what is left of this.subjects
SortOthers(i) ==
    /\ sorters[i].pc = "others"
    /\ LET s == sorters[i]
       IN  \E w \in {otherPass(workOf(s), s.metadatas, s.direction)} :
               /\ sorters' = [sorters EXCEPT ![i] =
                    IF w.err # NoError
                    THEN afterStep(s, w, "threw")
                    ELSE [afterStep(s, w, "done") EXCEPT
                              !.result = w.sortedSubjects \o w.subjects]]
               /\ input' = inputAfter(s, w)
    /\ UNCHANGED <<relations, parent, original, instanceVars, cacheVars,
                   runnerVars, graphVars>>

NextInterleaved ==
    \E i \in Instances :
        \/ \E dir \in Directions : SortJunctions(i, dir)
        \/ SortNonNullable(i)
        \/ SortOthers(i)

SpecInterleaved == InitInterleaved /\ [][NextInterleaved]_vars

\* ------------------------------------------------------------------ result cache: calls

\* isRedis5OrHigher of the cache as it is now
isRedis5OrHigher == isRedis5OrHigherOf(clientType, redisMajorVersion)

\* the calling convention a cache operation dispatches through
styleNow == IF isRedis5OrHigher THEN "promise" ELSE "callback"

\* the pairs of identifier and query text without key material
NoKeyPairs ==
    { <<Undefined, Undefined>>, <<StringOf(""), StringOf("")>>,
      <<Undefined, StringOf("")>>, <<StringOf(""), Undefined>> }

\* the pairs of identifier and query text callers pass
KeyPairs ==
    NoKeyPairs
    \cup { <<StringOf(k), Undefined>> : k \in CacheKeys }
    \cup { <<Undefined, StringOf(k)>> : k \in CacheKeys }
    \cup { <<StringOf(pair[1]), StringOf(pair[2])>> :
               pair \in { x \in CacheKeys \X CacheKeys : x[1] # x[2] } }

\* the options of a lookup: only the key material matters
LookupOptions ==
    { [identifier |-> pair[1], query |-> pair[2], time |-> 0, duration |-> 0,
       result |-> Undefined] : pair \in KeyPairs }

\* the options of a store made at clock reading t: raw rows with string cells
\* under any pair, raw rows with Date cells under a query text alone
StoreOptions(t) ==
    { [identifier |-> pair[1], query |-> pair[2], time |-> t, duration |-> d,
       result |-> RowsOf("string")] : pair \in KeyPairs, d \in 1..MaxDuration }
    \cup { [identifier |-> Undefined, query |-> StringOf(k), time |-> t, duration |-> d,
            result |-> RowsOf("Date")] : k \in CacheKeys, d \in 1..MaxDuration }

\* the entries handed to isExpired
SavedCaches ==
    { [identifier |-> Undefined, query |-> StringOf("K1"), time |-> t, duration |-> d,
       result |-> RowsOf("string")] : t \in 0..MaxTime, d \in 0..MaxDuration }

\* the lists of identifiers passed to remove
RECURSIVE IdentifierListsUpTo(_)
IdentifierListsUpTo(n) ==
    IF n = 0 THEN { <<>> }
    ELSE IdentifierListsUpTo(n - 1)
         \cup { Append(l, k) : l \in { x \in IdentifierListsUpTo(n - 1) : Len(x) = n - 1 },
                               k \in CacheKeys }
IdentifierLists == IdentifierListsUpTo(MaxIdentifiers)

\* the field of the options that supplies the key
keyField(options) == IF Falsy(options.identifier) THEN "query" ELSE "identifier"

\* a call that has just been made
newCall(name, style) == [NoCall EXCEPT !.name = name, !.style = style]

\* a command handed to the client; options is the record a set was made from
command(cmd, key, text, ttl, idx, options) ==
    [cmd |-> cmd, key |-> key, text |-> text, ttl |-> ttl, idx |-> idx,
     options |-> options]

\* faulty variant: only the first identifier is deleted
deleteFirstKeyOnly(identifiers) ==
    { command("del", identifiers[1], Garbage, 0, 1, NoEntry) }

\* the deletes remove starts, one deleteKey per identifier (lines 255-259)
deleteKeys(identifiers) ==
    { command("del", identifiers[k], Garbage, 0, k, NoEntry) :
        k \in 1..Len(identifiers) }

\* the commands of a set, in the order they were handed to the client
issuedOf(commands) ==
    [k \in 1..Cardinality(commands) |->
        LET c == CHOOSE x \in commands : x.idx = k
        IN  [cmd |-> c.cmd, key |-> c.key]]

\* the outcome of using this.client while it is undefined: a promise-style
\* getFromCache is no async function and throws, everything else rejects
withoutClient(call) ==
    [call EXCEPT !.status = IF call.name = "getFromCache" /\ call.style = "promise"
                            THEN "threw" ELSE "rejected",
                 !.error = "TypeError"]

\* one cache with its backend: the client module is loaded (constructor, lines
\* 40-46), the database holds a foreign key and, under K1, a text that does
\* not parse
InitCache ==
    /\ input = <<>>
    /\ original = <<>>
    /\ relations = <<>>
    /\ parent = [e \in Names |-> NoParent]
    /\ InitNoInstance
    /\ sorters = <<>>
    /\ library \in Libraries
    /\ clientType = library.type
    /\ client = "undefined"
    /\ redisMajorVersion = NoVersion
    /\ store = [k \in BackendKeys |->
                    CASE k = ForeignKey -> {[text |-> ForeignText, expiresAt |-> NoExpiry]}
                      [] k = "K1" -> {[text |-> Garbage, expiresAt |-> NoExpiry]}
                      [] OTHER -> {}]
    /\ now = 0
    /\ inflight = {}
    /\ op = NoCall
    /\ lastStored = [k \in CacheKeys |-> {}]
    /\ InitNoRunner
    /\ InitNoGraph

sorterVars == <<relations, parent, input, original, instanceVars, pairVars>>

\* connect (lines 55-129)
Connect ==
    /\ inflight = {}
    /\ \/ /\ clientType = "redis"
          /\ client' = "client"
          /\ \/ /\ library.hasConnect
                \* await this.client.connect() rejects: the version is not detected
                /\ op' = [newCall("connect", "none") EXCEPT
                             !.status = "rejected", !.error = "BackendError"]
                /\ UNCHANGED redisMajorVersion
             \/ /\ redisMajorVersion' =
                       detectRedisVersion(clientType, library, redisMajorVersion)
                /\ op' = [newCall("connect", "none") EXCEPT !.status = "resolved"]
       \/ /\ clientType = "ioredis"
          /\ client' = "client"
          /\ op' = [newCall("connect", "none") EXCEPT !.status = "resolved"]
          /\ UNCHANGED redisMajorVersion
       \/ /\ clientType = "ioredis/cluster"
          /\ IF library.nodes
             THEN /\ client' = "client"
                  /\ op' = [newCall("connect", "none") EXCEPT !.status = "resolved"]
             ELSE /\ client' = client
                  /\ op' = [newCall("connect", "none") EXCEPT
                               !.status = "rejected", !.error = "TypeORMError"]
          /\ UNCHANGED redisMajorVersion
    /\ UNCHANGED <<sorterVars, runnerVars, graphVars,
                   clientType, library, store, now, inflight, lastStored>>

\* faulty variant: disconnect forgets the version detected by connect
versionForgotten(version) == NoVersion

\* this.redisMajorVersion after disconnect (lines 134-150): no assignment
versionAfterDisconnect(version) == version

\* faulty variant: the reference outlives a successful quit
clientKeptAfterQuit(held) == held

\* this.client once quit succeeded (lines 137, 146)
clientAfterQuit(held) == "undefined"

\* disconnect (lines 134-150): quit answers or fails
Disconnect ==
    /\ inflight = {}
    /\ IF client = "undefined"
       THEN /\ op' = [newCall("disconnect", styleNow) EXCEPT
                         !.status = "rejected", !.error = "TypeError"]
            /\ client' = client
       ELSE \/ /\ op' = [newCall("disconnect", styleNow) EXCEPT !.status = "resolved"]
               /\ client' = clientAfterQuit(client)
            \/ /\ op' = [newCall("disconnect", styleNow) EXCEPT
                            !.status = "rejected", !.error = "BackendError"]
               /\ client' = client
    /\ redisMajorVersion' = versionAfterDisconnect(redisMajorVersion)
    /\ UNCHANGED <<sorterVars, runnerVars, graphVars,
                   clientType, library, store, now, inflight, lastStored>>

\* getFromCache(options) up to the get handed to the client (lines 162-183)
GetFromCache(options) ==
    /\ inflight = {}
    /\ LET key == keyOf(options)
           call == [newCall("getFromCache", styleNow) EXCEPT
                       !.key = key.v, !.by = keyField(options)]
       IN  IF Falsy(key)
           THEN /\ op' = [newCall("getFromCache", "none") EXCEPT !.status = "resolved"]
                /\ inflight' = inflight
           ELSE IF client = "undefined"
           THEN /\ op' = withoutClient(call)
                /\ inflight' = inflight
           ELSE /\ op' = [call EXCEPT !.status = "pending",
                                      !.issued = <<[cmd |-> "get", key |-> key.v]>>]
                /\ inflight' = {command("get", key.v, Garbage, 0, 1, NoEntry)}
    /\ UNCHANGED <<sorterVars, runnerVars, graphVars,
                   clientType, library, client, redisMajorVersion, store,
                   now, lastStored>>

\* storeInCache(options) up to the set handed to the client (lines 195-227)
StoreInCache(options) ==
    /\ inflight = {}
    /\ LET key == keyOf(options)
           call == [newCall("storeInCache", styleNow) EXCEPT
                       !.key = key.v, !.by = keyField(options)]
       IN  IF Falsy(key)
           THEN /\ op' = [newCall("storeInCache", "none") EXCEPT !.status = "resolved"]
                /\ inflight' = inflight
           ELSE IF client = "undefined"
           THEN /\ op' = withoutClient(call)
                /\ inflight' = inflight
           ELSE /\ op' = [call EXCEPT !.status = "pending",
                                      !.issued = <<[cmd |-> "set", key |-> key.v]>>]
                /\ inflight' = {command("set", key.v, stringify(options),
                                        options.duration, 1, options)}
    /\ UNCHANGED <<sorterVars, runnerVars, graphVars,
                   clientType, library, client, redisMajorVersion, store,
                   now, lastStored>>

\* clear() up to the flush handed to the client (lines 232-246)
Clear ==
    /\ inflight = {}
    /\ LET call == newCall("clear", styleNow)
       IN  IF client = "undefined"
           THEN /\ op' = withoutClient(call)
                /\ inflight' = inflight
           ELSE /\ op' = [call EXCEPT !.status = "pending",
                                      !.issued = <<[cmd |-> "flush", key |-> ""]>>]
                /\ inflight' = {command("flush", "", Garbage, 0, 1, NoEntry)}
    /\ UNCHANGED <<sorterVars, runnerVars, graphVars,
                   clientType, library, client, redisMajorVersion, store,
                   now, lastStored>>

\* remove(identifiers) up to the deletes handed to the client, one deleteKey
\* per identifier, all started before any is answered (lines 251-283)
Remove(identifiers) ==
    /\ inflight = {}
    /\ LET call == [newCall("remove", styleNow) EXCEPT !.identifiers = identifiers]
       IN  IF Len(identifiers) = 0
           THEN /\ op' = [call EXCEPT !.status = "resolved"]
                /\ inflight' = inflight
           ELSE IF client = "undefined"
           THEN /\ op' = withoutClient(call)
                /\ inflight' = inflight
           ELSE /\ op' = [call EXCEPT
                            !.status = "pending",
                            !.issued = issuedOf(deleteKeys(identifiers))]
                /\ inflight' = deleteKeys(identifiers)
    /\ UNCHANGED <<sorterVars, runnerVars, graphVars,
                   clientType, library, client, redisMajorVersion, store,
                   now, lastStored>>

\* isExpired(savedCache) (lines 188-190)
IsExpired(savedCache) ==
    /\ inflight = {}
    /\ op' = [newCall("isExpired", "none") EXCEPT
                 !.status = "returned", !.value = {savedCache},
                 !.flag = isExpired(savedCache, now), !.readAt = now]
    /\ UNCHANGED <<sorterVars, runnerVars, graphVars,
                   clientType, library, client, redisMajorVersion, store,
                   now, inflight, lastStored>>

\* faulty variant: a flush that spares the keys the cache did not write
flushedCacheKeysOnly(db) == [k \in BackendKeys |-> IF k \in CacheKeys THEN {} ELSE db[k]]

\* the database after flushDb / flushdb (lines 235 and 241)
flushed(db) == [k \in BackendKeys |-> {}]

\* faulty variant: an error of the backend is taken for a reply without value
afterErrorAsMiss(call) ==
    IF call.status = "pending"
    THEN [call EXCEPT !.status = "resolved", !.value = {}]
    ELSE call

\* the call after the backend failed the command
afterError(call) ==
    IF call.status = "pending"
    THEN [call EXCEPT !.status = "rejected", !.error = "BackendError"]
    ELSE call

\* faulty variant: an entry that isExpired reports stale reads as absent
afterGetDroppingStale(call, found) ==
    IF found = {} THEN [call EXCEPT !.status = "resolved", !.value = {}]
    ELSE LET parsed == parse((CHOOSE e \in found : TRUE).text)
         IN  IF parsed.err = "none"
             THEN [call EXCEPT !.status = "resolved",
                               !.value = IF isExpired(parsed.value, now)
                                         THEN {} ELSE {parsed.value}]
             ELSE IF call.style = "promise"
             THEN [call EXCEPT !.status = "rejected", !.error = parsed.err]
             ELSE call

\* the continuation of getFromCache on the reply found (lines 171-173 and
\* 178-181): a throw of JSON.parse rejects the promise of then, but inside the
\* callback, which the client runs after the executor returned, it settles nothing
afterGet(call, found) ==
    IF found = {} THEN [call EXCEPT !.status = "resolved", !.value = {}]
    ELSE LET parsed == parse((CHOOSE e \in found : TRUE).text)
         IN  IF parsed.err = "none"
             THEN [call EXCEPT !.status = "resolved", !.value = {parsed.value}]
             ELSE IF call.style = "promise"
             THEN [call EXCEPT !.status = "rejected", !.error = parsed.err]
             ELSE call

\* the backend fails a command
ReplyError(c) ==
    /\ c \in inflight
    /\ inflight' = inflight \ {c}
    /\ op' = [afterError(op) EXCEPT !.failed = TRUE]
    /\ UNCHANGED <<sorterVars, runnerVars, graphVars,
                   clientType, library, client, redisMajorVersion, store,
                   now, lastStored>>

\* the backend carries out a command and the call continues on its reply
Reply(c) ==
    /\ c \in inflight
    /\ inflight' = inflight \ {c}
    /\ \/ /\ c.cmd = "get"
          /\ op' = [afterGet(op, store[c.key]) EXCEPT !.stored = lastStored[c.key]]
          /\ UNCHANGED <<store, lastStored>>
       \/ /\ c.cmd = "set"
          /\ store' = [store EXCEPT ![c.key] =
                          {[text |-> c.text, expiresAt |-> now + c.ttl]}]
          /\ lastStored' = [lastStored EXCEPT ![c.key] = {c.options}]
          /\ op' = [op EXCEPT !.status = "resolved"]
       \/ /\ c.cmd = "del"
          /\ store' = [store EXCEPT ![c.key] = {}]
          /\ lastStored' = [lastStored EXCEPT ![c.key] = {}]
          /\ op' = IF op.status = "pending" /\ inflight = {c}
                   THEN [op EXCEPT !.status = "resolved"]
                   ELSE op
       \/ /\ c.cmd = "flush"
          /\ store' = flushed(store)
          /\ lastStored' = [k \in CacheKeys |-> {}]
          /\ op' = [op EXCEPT !.status = "resolved"]
    /\ UNCHANGED <<sorterVars, runnerVars, graphVars,
                   clientType, library, client, redisMajorVersion, now>>

\* the backend drops an entry whose time to live has passed
Expire(k) ==
    /\ store[k] # {}
    /\ \E e \in store[k] : e.expiresAt # NoExpiry /\ e.expiresAt <= now
    /\ store' = [store EXCEPT ![k] = {}]
    /\ lastStored' = [lastStored EXCEPT ![k] = {}]
    /\ UNCHANGED <<sorterVars, runnerVars, graphVars,
                   clientType, library, client, redisMajorVersion, now,
                   inflight, op>>

\* a millisecond passes
Tick ==
    /\ now < MaxTime
    /\ now' = now + 1
    /\ UNCHANGED <<sorterVars, runnerVars, graphVars,
                   clientType, library, client, redisMajorVersion, store,
                   inflight, op, lastStored>>

NextCache ==
    \/ Connect
    \/ Disconnect
    \/ \E options \in LookupOptions : GetFromCache(options)
    \/ \E options \in StoreOptions(now) : StoreInCache(options)
    \/ Clear
    \/ \E identifiers \in IdentifierLists : Remove(identifiers)
    \/ \E savedCache \in SavedCaches : IsExpired(savedCache)
    \/ \E c \in inflight : Reply(c)
    \/ \E c \in inflight : ReplyError(c)
    \/ \E k \in CacheKeys : Expire(k)
    \/ Tick

SpecCache == InitCache /\ [][NextCache]_vars

\* the cache of a "redis" client watched for longer, until an entry stored
\* at the start is past its duration
InitCacheStale == InitCache /\ clientType = "redis"

\* a further millisecond passes
TickLate ==
    /\ now >= MaxTime
    /\ now < MaxLateTime
    /\ now' = now + 1
    /\ UNCHANGED <<sorterVars, runnerVars, graphVars,
                   clientType, library, client, redisMajorVersion, store,
                   inflight, op, lastStored>>

NextCacheStale ==
    \/ NextCache
    \/ TickLate

SpecCacheStale == InitCacheStale /\ [][NextCacheStale]_vars

\* the client modules a cache may be given, told apart by the set method of
\* their clients: none, or one declaring 0, 3 or 4 parameters
SignatureLibraries ==
    [type : {"redis"}, hasConnect : BOOLEAN, setLength : {NoSetMethod, 0, PromiseSetArity, 4},
     nodes : {FALSE}]
    \cup [type : {"ioredis"}, hasConnect : {TRUE}, setLength : {0, PromiseSetArity, 4},
          nodes : {FALSE}]
    \cup [type : {"ioredis/cluster"}, hasConnect : {TRUE}, setLength : {PromiseSetArity, 4},
          nodes : BOOLEAN]

\* one cache over any of these modules
InitCacheSignatures ==
    /\ input = <<>>
    /\ original = <<>>
    /\ relations = <<>>
    /\ parent = [e \in Names |-> NoParent]
    /\ InitNoInstance
    /\ sorters = <<>>
    /\ library \in SignatureLibraries
    /\ clientType = library.type
    /\ client = "undefined"
    /\ redisMajorVersion = NoVersion
    /\ store = [k \in BackendKeys |->
                    CASE k = ForeignKey -> {[text |-> ForeignText, expiresAt |-> NoExpiry]}
                      [] k = "K1" -> {[text |-> Garbage, expiresAt |-> NoExpiry]}
                      [] OTHER -> {}]
    /\ now = 0
    /\ inflight = {}
    /\ op = NoCall
    /\ lastStored = [k \in CacheKeys |-> {}]
    /\ InitNoRunner
    /\ InitNoGraph

\* the calls that tell the two calling conventions apart
NextCacheSignatures ==
    \/ Connect
    \/ Disconnect
    \/ \E options \in LookupOptions : GetFromCache(options)
    \/ \E options \in StoreOptions(now) : StoreInCache(options)
    \/ Clear
    \/ \E c \in inflight : Reply(c)
    \/ \E c \in inflight : ReplyError(c)

SpecCacheSignatures == InitCacheSignatures /\ [][NextCacheSignatures]_vars

\* --------------------------------------------------------- query runner: calls

\* one query runner fresh from its constructor (lines 60-66), its callers
\* making up to MaxCalls calls without waiting for one another
InitRunner ==
    /\ input = <<>>
    /\ original = <<>>
    /\ relations = <<>>
    /\ parent = [e \in Names |-> NoParent]
    /\ InitNoInstance
    /\ sorters = <<>>
    /\ InitNoCache
    /\ InitNoGraph
    /\ isReleased = FALSE
    /\ isTransactionActive = FALSE
    /\ databaseConnection = "undefined"
    /\ autoCommit = "on"
    /\ transactionSupport \in TransactionSupports
    /\ lock = <<>>
    /\ executing = {}
    /\ invocations = [i \in Calls |-> NoInvocation]

notRunnerVars == <<sorterVars, cacheVars, graphVars, transactionSupport>>

\* call i is the next one made
NextCall(i) ==
    /\ invocations[i].pc = "idle"
    /\ \A j \in Calls : j < i => invocations[j].pc # "idle"

\* this.connect() up to its await (lines 76-82): the connection is obtained
\* from the driver unless the runner has one
connecting(inv, position) ==
    [inv EXCEPT !.pc = position, !.obtaining = (databaseConnection = "undefined")]

\* this.query(...) up to its first await (lines 196-198) as call i makes it:
\* the release check, then the queue of the lock
EnterQuery(i, inv) ==
    LET thrown == thrownOnEntry("query", isReleased, isTransactionActive,
                                transactionSupport)
    IN  IF thrown # "none"
        THEN /\ invocations' = [invocations EXCEPT ![i] = rejected(inv, thrown)]
             /\ lock' = lock
        ELSE /\ invocations' = [invocations EXCEPT ![i] = [inv EXCEPT !.pc = "acquire"]]
             /\ lock' = acquiring(lock, i)

\* release() up to the disconnect it awaits (lines 88-96)
Release(i) ==
    /\ NextCall(i)
    /\ isReleased' = TRUE
    /\ LET inv == called("release", FALSE)
       IN  invocations' = [invocations EXCEPT ![i] =
                IF databaseConnection = "undefined" THEN resolved(inv)
                ELSE [inv EXCEPT !.pc = "disconnect"]]
    /\ UNCHANGED <<notRunnerVars, isTransactionActive, databaseConnection, autoCommit,
                   lock, executing>>

\* the connection answers disconnect (lines 93-100)
Disconnected(i, ok) ==
    /\ invocations[i].pc = "disconnect"
    /\ invocations' = [invocations EXCEPT ![i] =
            IF ok THEN resolved(@) ELSE rejected(@, "DisconnectError")]
    /\ UNCHANGED <<notRunnerVars, isReleased, isTransactionActive, databaseConnection,
                   autoCommit, lock, executing>>

\* startTransaction, commitTransaction, rollbackTransaction up to the first
\* broadcast they await (lines 107-116, 139-144, 157-162)
Transaction(i, method, isolationLevel) ==
    /\ NextCall(i)
    /\ LET inv == called(method, isolationLevel)
           thrown == thrownOnEntry(method, isReleased, isTransactionActive,
                                   transactionSupport)
       IN  invocations' = [invocations EXCEPT ![i] =
                IF thrown # "none" THEN rejected(inv, thrown)
                ELSE [inv EXCEPT !.pc = "before"]]
    /\ UNCHANGED <<notRunnerVars, isReleased, isTransactionActive, databaseConnection,
                   autoCommit, lock, executing>>

\* query(...) and stream(...) up to the lock (lines 191-198, 331-339); the
\* parameters of a query may hold an array, and the statement is then
\* prepared (line 214)
Query(i, method, withArray) ==
    /\ NextCall(i)
    /\ withArray => method = "query"
    /\ LET inv == [called(method, FALSE) EXCEPT !.statement = withArray]
           thrown == thrownOnEntry(method, isReleased, isTransactionActive,
                                   transactionSupport)
       IN  IF thrown # "none"
           THEN /\ invocations' = [invocations EXCEPT ![i] = rejected(inv, thrown)]
                /\ lock' = lock
           ELSE /\ invocations' = [invocations EXCEPT ![i] = [inv EXCEPT !.pc = "acquire"]]
                /\ lock' = acquiring(lock, i)
    /\ UNCHANGED <<notRunnerVars, isReleased, isTransactionActive, databaseConnection,
                   autoCommit, executing>>

\* the Before... broadcast of a transaction method is over (lines 116-124,
\* 144-146, 162-164)
BroadcastBefore(i, ok) ==
    /\ invocations[i].pc = "before"
    /\ LET inv == invocations[i]
       IN  IF ~ok
           THEN /\ invocations' = [invocations EXCEPT ![i] = rejected(inv, "SubscriberError")]
                /\ UNCHANGED <<isTransactionActive, lock>>
           ELSE IF inv.method = "startTransaction"
           THEN /\ isTransactionActive' = activeAfter(inv.method)
                /\ invocations' = [interferedBy(invocations, i) EXCEPT ![i] =
                                      connecting(inv, "setAutoCommit")]
                /\ lock' = lock
           ELSE /\ EnterQuery(i, inv)
                /\ UNCHANGED isTransactionActive
    /\ UNCHANGED <<notRunnerVars, isReleased, databaseConnection, autoCommit, executing>>

\* the lock is granted to the call at the head of its queue, which goes on to
\* this.connect() (lines 198-200, 339, 358)
Acquired(i) ==
    /\ invocations[i].pc = "acquire"
    /\ granted(lock, i)
    /\ invocations' = [invocations EXCEPT ![i] = connecting(@, "connect")]
    /\ UNCHANGED <<notRunnerVars, isReleased, isTransactionActive, databaseConnection,
                   autoCommit, lock, executing>>

\* this.connect() of query or stream is over (lines 200-206, 358-364): query
\* goes on to the BeforeQuery broadcast, stream prepares its statement; a
\* failure leaves query at once, and stream through its catch block
Connected(i, ok) ==
    /\ invocations[i].pc = "connect"
    /\ ok \/ invocations[i].obtaining
    /\ LET inv == invocations[i]
       IN  IF ok
           THEN /\ databaseConnection' = "connection"
                /\ IF inv.method = "stream"
                   THEN /\ invocations' = [invocations EXCEPT ![i] =
                                              [inv EXCEPT !.pc = "prepare"]]
                        /\ executing' = executing \cup {[by |-> i, sql |-> "PREPARE"]}
                   ELSE /\ invocations' = [invocations EXCEPT ![i] =
                                              [inv EXCEPT !.pc = "beforeQuery"]]
                        /\ executing' = executing
                /\ lock' = lock
           ELSE /\ databaseConnection' = databaseConnection
                /\ executing' = executing
                /\ IF inv.method = "stream"
                   THEN /\ invocations' = [invocations EXCEPT ![i] =
                                              rejected(inv, "QueryFailedError")]
                        /\ lock' = released(lock, i)
                   ELSE /\ invocations' = [invocations EXCEPT ![i] =
                                              rejected(inv, "ConnectionError")]
                        /\ lock' = lock
    /\ UNCHANGED <<notRunnerVars, isReleased, isTransactionActive, autoCommit>>

\* the BeforeQuery broadcast is over and the statement goes to the connection,
\* to be prepared when the parameters hold an array (lines 206-233)
BroadcastBeforeQuery(i, ok) ==
    /\ invocations[i].pc = "beforeQuery"
    /\ IF ok /\ invocations[i].statement
       THEN /\ invocations' = [invocations EXCEPT ![i] = [@ EXCEPT !.pc = "prepareStatement"]]
            /\ executing' = executing \cup {[by |-> i, sql |-> "PREPARE"]}
       ELSE IF ok
       THEN /\ invocations' = [invocations EXCEPT ![i] = [@ EXCEPT !.pc = "exec"]]
            /\ executing' = executing \cup {[by |-> i, sql |-> invocations[i].sql]}
       ELSE /\ invocations' = [invocations EXCEPT ![i] = rejected(@, "SubscriberError")]
            /\ executing' = executing
    /\ UNCHANGED <<notRunnerVars, isReleased, isTransactionActive, databaseConnection,
                   autoCommit, lock>>

\* the connection answers the prepare of query (lines 214-221): the prepared
\* statement is executed; a failure reaches the finally block with no
\* statement to drop (lines 288-314)
StatementPrepared(i, ok) ==
    /\ invocations[i].pc = "prepareStatement"
    /\ IF ok
       THEN /\ invocations' = [invocations EXCEPT ![i] = [@ EXCEPT !.pc = "exec"]]
            /\ executing' = (executing \ {[by |-> i, sql |-> "PREPARE"]})
                               \cup {[by |-> i, sql |-> invocations[i].sql]}
       ELSE /\ invocations' = [invocations EXCEPT ![i] =
                    [@ EXCEPT !.pc = "wait", !.statement = FALSE,
                              !.thrown = "PrepareError"]]
            /\ executing' = executing \ {[by |-> i, sql |-> "PREPARE"]}
    /\ UNCHANGED <<notRunnerVars, isReleased, isTransactionActive, databaseConnection,
                   autoCommit, lock>>

\* the connection answers the statement; query reaches its finally block,
\* where it drops the statement it prepared, or else waits for the
\* after-query broadcast (lines 221-314)
Executed(i, ok) ==
    /\ invocations[i].pc = "exec"
    /\ executing' = executing \ {[by |-> i, sql |-> invocations[i].sql]}
    /\ invocations' = [invocations EXCEPT ![i] =
            [@ EXCEPT !.pc = IF invocations[i].statement THEN "drop" ELSE "wait",
                      !.thrown = IF ok THEN "none" ELSE "QueryFailedError"]]
    /\ UNCHANGED <<notRunnerVars, isReleased, isTransactionActive, databaseConnection,
                   autoCommit, lock>>

\* the drop in the finally block is over (lines 307-314): query goes on to
\* the wait, or leaves with the error of the drop
StatementDropped(i, ok) ==
    /\ invocations[i].pc = "drop"
    /\ invocations' = [invocations EXCEPT ![i] =
            IF ok THEN [@ EXCEPT !.pc = "wait", !.statement = FALSE]
            ELSE rejected(@, "DropError")]
    /\ UNCHANGED <<notRunnerVars, isReleased, isTransactionActive, databaseConnection,
                   autoCommit, lock, executing>>
    /\ UNCHANGED <<notRunnerVars, isReleased, isTransactionActive, databaseConnection,
                   autoCommit, lock>>

\* the wait in the finally block is over: the lock is released and query
\* returns or throws to the method that called it (lines 314-325, 127-130,
\* 147-149, 165-167)
Waited(i, ok) ==
    /\ invocations[i].pc = "wait"
    /\ LET inv == invocations[i]
       IN  IF ~ok
           THEN /\ invocations' = [invocations EXCEPT ![i] = rejected(inv, "SubscriberError")]
                /\ UNCHANGED <<lock, isTransactionActive>>
           ELSE /\ lock' = released(lock, i)
                /\ IF inv.thrown # "none"
                   THEN /\ invocations' = [invocations EXCEPT ![i] = rejected(inv, inv.thrown)]
                        /\ UNCHANGED isTransactionActive
                   ELSE IF inv.method = "query"
                   THEN /\ invocations' = [invocations EXCEPT ![i] = resolved(inv)]
                        /\ UNCHANGED isTransactionActive
                   ELSE IF inv.method = "startTransaction"
                   THEN /\ invocations' = [invocations EXCEPT ![i] =
                                              [inv EXCEPT !.pc = "after"]]
                        /\ UNCHANGED isTransactionActive
                   ELSE /\ isTransactionActive' = activeAfter(inv.method)
                        /\ invocations' = [interferedBy(invocations, i) EXCEPT ![i] =
                                              connecting(inv, "setAutoCommit")]
    /\ UNCHANGED <<notRunnerVars, isReleased, databaseConnection, autoCommit, executing>>

\* this.connect() of setAutoCommit is over: the setting of the connection is
\* switched and the statement goes to the connection (lines 176-182)
SetAutoCommit(i, ok) ==
    /\ invocations[i].pc = "setAutoCommit"
    /\ ok \/ invocations[i].obtaining
    /\ LET inv == invocations[i]
           status == autoCommitFor(inv.method)
       IN  IF ok
           THEN /\ databaseConnection' = "connection"
                /\ autoCommit' = status
                /\ executing' = executing \cup
                                   {[by |-> i, sql |-> autoCommitStatement(status)]}
                /\ invocations' = [interferedBy(invocations, i) EXCEPT ![i] =
                                      [inv EXCEPT !.pc = "autoCommitExec"]]
           ELSE /\ invocations' = [invocations EXCEPT ![i] =
                                      rejected(inv, "ConnectionError")]
                /\ UNCHANGED <<databaseConnection, autoCommit, executing>>
    /\ UNCHANGED <<notRunnerVars, isReleased, isTransactionActive, lock>>

\* the connection answers the autocommit statement (lines 182-185), and the
\* method goes on (lines 126-132, 150, 168)
AutoCommitExecuted(i, ok) ==
    /\ invocations[i].pc = "autoCommitExec"
    /\ LET inv == invocations[i]
       IN  /\ executing' = executing \
                   {[by |-> i, sql |-> autoCommitStatement(autoCommitFor(inv.method))]}
           /\ IF ~ok
              THEN /\ invocations' = [invocations EXCEPT ![i] =
                                         rejected(inv, "QueryFailedError")]
                   /\ lock' = lock
              ELSE IF inv.method = "startTransaction" /\ inv.isolationLevel
              THEN EnterQuery(i, inv)
              ELSE /\ invocations' = [invocations EXCEPT ![i] = [inv EXCEPT !.pc = "after"]]
                   /\ lock' = lock
    /\ UNCHANGED <<notRunnerVars, isReleased, isTransactionActive, databaseConnection,
                   autoCommit>>

\* the After... broadcast of a transaction method is over (lines 132, 150, 168)
BroadcastAfter(i, ok) ==
    /\ invocations[i].pc = "after"
    /\ invocations' = [invocations EXCEPT ![i] =
            IF ok THEN resolved(@) ELSE rejected(@, "SubscriberError")]
    /\ UNCHANGED <<notRunnerVars, isReleased, isTransactionActive, databaseConnection,
                   autoCommit, lock, executing>>

\* the connection answers the prepare of stream (lines 361-364, 387-395)
Prepared(i, ok) ==
    /\ invocations[i].pc = "prepare"
    /\ IF ok
       THEN /\ invocations' = [invocations EXCEPT ![i] = [@ EXCEPT !.pc = "executeQuery"]]
            /\ executing' = (executing \ {[by |-> i, sql |-> "PREPARE"]})
                               \cup {[by |-> i, sql |-> invocations[i].sql]}
            /\ lock' = lock
       ELSE /\ invocations' = [invocations EXCEPT ![i] = rejected(@, "QueryFailedError")]
            /\ executing' = executing \ {[by |-> i, sql |-> "PREPARE"]}
            /\ lock' = released(lock, i)
    /\ UNCHANGED <<notRunnerVars, isReleased, isTransactionActive, databaseConnection,
                   autoCommit>>

\* the connection answers executeQuery (lines 365-386): stream returns the
\* open stream and keeps the lock; on a failure the statement is dropped and
\* the lock released, unless the drop fails too (lines 343-355, 387-395)
QueryExecuted(i, ok, dropped) ==
    /\ invocations[i].pc = "executeQuery"
    /\ executing' = executing \ {[by |-> i, sql |-> invocations[i].sql]}
    /\ IF ok
       THEN /\ invocations' = [invocations EXCEPT ![i] =
                                  [resolved(@) EXCEPT !.pc = "open"]]
            /\ lock' = lock
       ELSE IF dropped
       THEN /\ invocations' = [invocations EXCEPT ![i] = rejected(@, "QueryFailedError")]
            /\ lock' = released(lock, i)
       ELSE /\ invocations' = [invocations EXCEPT ![i] = rejected(@, "DropError")]
            /\ lock' = lock
    /\ UNCHANGED <<notRunnerVars, isReleased, isTransactionActive, databaseConnection,
                   autoCommit>>

\* the stream closes: cleanup closes the result set, drops the statement and
\* releases the lock, unless one of the two fails (lines 343-355, 384)
Closed(i, ok) ==
    /\ invocations[i].pc = "open"
    /\ invocations' = [invocations EXCEPT ![i] = [@ EXCEPT !.pc = "done"]]
    /\ lock' = IF ok THEN released(lock, i) ELSE lock
    /\ UNCHANGED <<notRunnerVars, isReleased, isTransactionActive, databaseConnection,
                   autoCommit, executing>>

NextRunner ==
    \/ \E i \in Calls : Release(i)
    \/ \E i \in Calls, ok \in BOOLEAN : Disconnected(i, ok)
    \/ \E i \in Calls, isolationLevel \in BOOLEAN :
           Transaction(i, "startTransaction", isolationLevel)
    \/ \E i \in Calls : Transaction(i, "commitTransaction", FALSE)
    \/ \E i \in Calls : Transaction(i, "rollbackTransaction", FALSE)
    \/ \E i \in Calls, method \in {"query", "stream"}, withArray \in BOOLEAN :
           Query(i, method, withArray)
    \/ \E i \in Calls, ok \in BOOLEAN : BroadcastBefore(i, ok)
    \/ \E i \in Calls : Acquired(i)
    \/ \E i \in Calls, ok \in BOOLEAN : Connected(i, ok)
    \/ \E i \in Calls, ok \in BOOLEAN : BroadcastBeforeQuery(i, ok)
    \/ \E i \in Calls, ok \in BOOLEAN : StatementPrepared(i, ok)
    \/ \E i \in Calls, ok \in BOOLEAN : Executed(i, ok)
    \/ \E i \in Calls, ok \in BOOLEAN : StatementDropped(i, ok)
    \/ \E i \in Calls, ok \in BOOLEAN : Waited(i, ok)
    \/ \E i \in Calls, ok \in BOOLEAN : SetAutoCommit(i, ok)
    \/ \E i \in Calls, ok \in BOOLEAN : AutoCommitExecuted(i, ok)
    \/ \E i \in Calls, ok \in BOOLEAN : BroadcastAfter(i, ok)
    \/ \E i \in Calls, ok \in BOOLEAN : Prepared(i, ok)
    \/ \E i \in Calls, ok, dropped \in BOOLEAN : QueryExecuted(i, ok, dropped)
    \/ \E i \in Calls, ok \in BOOLEAN : Closed(i, ok)

SpecRunner == InitRunner /\ [][NextRunner]_vars

\* ------------------------------------------------------ toposort on its own

\* edges in a list handed to toposort
MaxEdges == 3

\* the nodes the edges are drawn from
GraphNodes == Names \cup {"D"}

RECURSIVE EdgeListsUpTo(_)
EdgeListsUpTo(n) ==
    IF n = 0 THEN {<<>>}
    ELSE LET shorter == EdgeListsUpTo(n - 1)
         IN  shorter \cup { Append(l, <<from, to>>) :
                                l \in { x \in shorter : Len(x) = n - 1 },
                                from \in GraphNodes, to \in GraphNodes }

\* an edge list of any shape, cyclic ones and self-references included
InitToposort ==
    /\ input = <<>>
    /\ original = <<>>
    /\ relations = <<>>
    /\ parent = [e \in Names |-> NoParent]
    /\ InitNoInstance
    /\ sorters = <<>>
    /\ InitNoCache
    /\ InitNoRunner
    /\ graph \in EdgeListsUpTo(MaxEdges)
    /\ order = NoOrder

\* toposort(graph), returning or throwing (lines 167-221)
Toposort ==
    /\ ~order.applied
    /\ \E r \in {toposort(graph)} :
           order' = [sorted |-> r.sorted, err |-> r.err, applied |-> TRUE]
    /\ UNCHANGED <<sorterVars, cacheVars, runnerVars, graph>>

NextToposort == Toposort

SpecToposort == InitToposort /\ [][NextToposort]_vars

\* ------------------------------------------------------------------ vocabulary of the properties

\* the last sort call returned / threw
Returned == pc = "done"
Threw == pc = "threw"
\* the last sort call was the first one on a freshly constructed sorter
FirstSort == calls = 1 /\ pc \in {"done", "threw"}

AllCarryMetadata == \A k \in 1..Len(original) : original[k].metadata # NoMeta
NoneCarriesMetadata == \A k \in 1..Len(original) : original[k].metadata = NoMeta

\* entities that have a subject in the caller's array
SubjectNames == MetadataNamesOf(original)

\* the relations the schema declares for the entities that have a subject
DeclaredRelations ==
    { relations[k] : k \in { j \in 1..Len(relations) : relations[j].from \in SubjectNames } }

\* non-nullable relations as a graph (a self-relation is a loop), and all
\* relations between distinct entities as a graph
NonNullableGraph == { <<r.from, r.to>> : r \in { q \in DeclaredRelations : ~q.isNullable } }
FullGraph == { <<r.from, r.to>> : r \in { q \in DeclaredRelations : q.from # q.to } }

\* pairs joined by a path of at least one edge of graph G
RECURSIVE PathsUpTo(_, _)
PathsUpTo(G, n) ==
    IF n <= 1 THEN G
    ELSE LET shorter == PathsUpTo(G, n - 1)
         IN  shorter \cup { pair \in Names \X Names :
                              \E mid \in Names : /\ <<pair[1], mid>> \in shorter
                                                 /\ <<mid, pair[2]>> \in G }

Paths(G) == PathsUpTo(G, Cardinality(Names))
OnCycle(G, node) == <<node, node>> \in Paths(G)
Acyclic(G) == \A node \in Names : ~OnCycle(G, node)

Occurrences(arr, x) == Cardinality({ k \in 1..Len(arr) : arr[k] = x })
ElementsOf(arr) == { arr[k] : k \in 1..Len(arr) }

\* arr and brr hold the same elements the same number of times
IsPermutation(arr, brr) ==
    /\ Len(arr) = Len(brr)
    /\ \A x \in ElementsOf(arr) \cup ElementsOf(brr) : Occurrences(arr, x) = Occurrences(brr, x)

\* position of the subject with identity id in arr (0 when absent)
PositionOf(arr, id) ==
    IF \E k \in 1..Len(arr) : arr[k].id = id
    THEN CHOOSE k \in 1..Len(arr) : arr[k].id = id
    ELSE 0

\* the elements of arr taken in the same relative order as in the caller's array
KeepsInputOrder(arr) ==
    \A i, j \in 1..Len(arr) :
        i < j => PositionOf(original, arr[i].id) < PositionOf(original, arr[j].id)

\* an entity outside every class hierarchy
NoInheritance(e) == parent[e] = NoParent /\ \A x \in Names : parent[x] # e

\* ------------------------------------------------------------------ properties

\* C1: for a non-empty array whose subjects all carry metadata, over a schema
\* whose non-nullable relations form no cycle (a non-nullable self-relation is
\* a cycle of length one) and whose relations between distinct entities form
\* no cycle, the first sort of a fresh sorter returns, in either direction,
\* and what it returns holds every subject of the array exactly once.
C1_SortReturnsPermutation ==
    (/\ FirstSort
     /\ Len(original) > 0
     /\ AllCarryMetadata
     /\ Acyclic(NonNullableGraph)
     /\ Acyclic(FullGraph))
    => (Returned /\ IsPermutation(result, original))

\* a three-subject array over two relations, reordered by a delete sort
C1_Witness ==
    /\ FirstSort /\ Returned /\ direction = "delete"
    /\ Len(original) = 3 /\ AllCarryMetadata
    /\ Len(relations) = 2
    /\ result # original
    /\ IsPermutation(result, original)

\* C2: on insert, for every non-nullable relation from an entity M to another
\* entity N, both outside every class hierarchy, every subject of N is
\* returned before every subject of M.
C2_InsertDependencyFirst ==
    (FirstSort /\ Returned /\ direction = "insert")
    => \A r \in DeclaredRelations :
         (~r.isNullable /\ r.from # r.to /\ NoInheritance(r.from) /\ NoInheritance(r.to))
         => \A i, j \in 1..Len(result) :
              (result[i].metadata = r.from /\ result[j].metadata = r.to) => j < i

\* sort([subjectA, subjectB], insert) with A non-nullably referencing B
\* returns subjectB, then subjectA
C2_Witness ==
    /\ FirstSort /\ Returned /\ direction = "insert"
    /\ Len(original) = 2
    /\ original[1].metadata = "A" /\ original[2].metadata = "B"
    /\ relations = <<[from |-> "A", to |-> "B", isNullable |-> FALSE]>>
    /\ result = <<original[2], original[1]>>

\* C3, as claimed: when the only relation with a join column of the only
\* subject's entity is a non-nullable relation to itself, sort(insert) returns
\* the one-subject array and does not throw.
C3_SelfReferenceSorts ==
    (/\ FirstSort /\ direction = "insert"
     /\ Len(original) = 1
     /\ original[1].metadata # NoMeta
     /\ Len(relations) = 1
     /\ relations[1].from = original[1].metadata
     /\ relations[1].to = original[1].metadata
     /\ ~relations[1].isNullable)
    => (Returned /\ result = original)

\* C4: when the non-nullable relations of the subjects' entities contain a
\* cycle through two distinct entities, the first sort throws the cyclic
\* dependency error in either direction, returns nothing, and the node the
\* error names lies on a cycle of non-nullable relations.
CycleBetweenDistinct ==
    \E m, n \in Names :
        m # n /\ <<m, n>> \in Paths(NonNullableGraph) /\ <<n, m>> \in Paths(NonNullableGraph)

C4_CycleThrows ==
    (FirstSort /\ AllCarryMetadata /\ CycleBetweenDistinct)
    => /\ Threw
       /\ error.kind = "CyclicDependency"
       /\ result = <<>>
       /\ OnCycle(NonNullableGraph, error.node)

\* A and B reference each other non-nullably and a delete sort threw
C4_Witness ==
    /\ FirstSort /\ Threw /\ direction = "delete"
    /\ CycleBetweenDistinct
    /\ error.kind = "CyclicDependency"
    /\ Len(original) = 3

\* C5: what sort(delete) returns has every junction subject before every
\* other subject, and the junction subjects in the order of the array.
JunctionPart(arr) == SelectSeq(arr, isJunctionSubject)

C5_JunctionFirstOnDelete ==
    (FirstSort /\ Returned /\ direction = "delete")
    => /\ \A i, j \in 1..Len(result) :
            (result[j].junction /\ ~result[i].junction) => j < i
       /\ JunctionPart(result) = JunctionPart(original)

\* an owned subject ahead of two junction subjects in the array
C5_Witness ==
    /\ FirstSort /\ Returned /\ direction = "delete"
    /\ Len(original) = 3
    /\ ~original[1].junction /\ original[2].junction /\ original[3].junction
    /\ result = <<original[2], original[3], original[1]>>

\* C6, as claimed: when Base non-nullably references Dep and Derived's
\* inheritance tree contains Base, the Derived-typed and Base-typed subjects
\* are returned as one group in their relative order of the array, after
\* every Dep subject on insert and before every Dep subject on delete.
InheritedScenario(base, dep, derived) ==
    /\ base # dep /\ derived # base /\ derived # dep
    /\ Includes(inheritanceTree(derived), base)

IsGroup(arr, members) ==
    /\ \A i, j, k \in 1..Len(arr) :
          (i < j /\ j < k /\ arr[i] \in members /\ arr[k] \in members) => arr[j] \in members
    /\ \A i, j \in 1..Len(arr) :
          (i < j /\ arr[i] \in members /\ arr[j] \in members)
          => PositionOf(original, arr[i].id) < PositionOf(original, arr[j].id)

AllBefore(arr, first, second) ==
    \A i, j \in 1..Len(arr) : (arr[i] \in first /\ arr[j] \in second) => i < j

SubjectsOf(names) == { x \in ElementsOf(original) : x.metadata \in names }
OwnedSubjectsOf(names) == { x \in SubjectsOf(names) : ~x.junction }

C7_CallerArrayUnchanged ==
    /\ input = original
    /\ pc = "ready" => thisSubjects = original

\* a sort consumed the instance's own array, the caller's array is whole and
\* can be handed to another sorter
C7_Witness ==
    /\ FirstSort /\ direction = "insert"
    /\ Len(original) = 3
    /\ Len(thisSubjects) < Len(original)
    /\ input = original
    /\ ENABLED Construct

\* C8, as claimed: on delete, for every non-nullable relation from an entity M
\* to another entity N, both outside every class hierarchy, every subject of M
\* is returned before every subject of N.
C8_DeleteDependentFirst ==
    (FirstSort /\ Returned /\ direction = "delete")
    => \A r \in DeclaredRelations :
         (~r.isNullable /\ r.from # r.to /\ NoInheritance(r.from) /\ NoInheritance(r.to))
         => \A i, j \in 1..Len(result) :
              (result[i].metadata = r.from /\ result[j].metadata = r.to) => i < j

\* C8, amended: on delete, for every such relation, every subject of M that is
\* not a junction subject is returned before every subject of N that is not a
\* junction subject (junction subjects come first whatever their entity).
C8_DeleteOwnedDependentFirst ==
    (FirstSort /\ Returned /\ direction = "delete")
    => \A r \in DeclaredRelations :
         (~r.isNullable /\ r.from # r.to /\ NoInheritance(r.from) /\ NoInheritance(r.to))
         => \A i, j \in 1..Len(result) :
              (/\ result[i].metadata = r.from /\ ~result[i].junction
               /\ result[j].metadata = r.to /\ ~result[j].junction) => i < j

\* B non-nullably references A: [a, b] is deleted as b, a
C8_Witness ==
    /\ FirstSort /\ Returned /\ direction = "delete"
    /\ Len(original) = 2
    /\ ~original[1].junction /\ ~original[2].junction
    /\ relations = <<[from |-> "B", to |-> "A", isNullable |-> FALSE]>>
    /\ result = <<original[2], original[1]>>

TargetWithoutSubject ==
    \E r \in DeclaredRelations : r.from # r.to /\ r.to \notin SubjectNames

C10_MissingTargetThrows ==
    (FirstSort /\ AllCarryMetadata /\ TargetWithoutSubject) => Threw

\* C10, amended: a relation whose target has no subject in the array does not
\* make sort fail: the unknown-node error is never thrown, and unless the
\* relations contain a cycle sort returns every subject of the array.
C10_MissingTargetIsSorted ==
    /\ error.kind # "UnknownNode"
    /\ (/\ FirstSort /\ AllCarryMetadata /\ TargetWithoutSubject
        /\ Acyclic(NonNullableGraph) /\ Acyclic(FullGraph))
       => (Returned /\ IsPermutation(result, original))

\* A non-nullably references B, only A has a subject, and sort returned it
C10_Witness ==
    /\ FirstSort /\ Returned /\ direction = "insert"
    /\ TargetWithoutSubject
    /\ SubjectNames = {"A"}
    /\ relations = <<[from |-> "A", to |-> "B", isNullable |-> FALSE]>>
    /\ result = original /\ Len(original) = 1


\* what sort(dir) gives on an instance made from the caller's array and run
\* with no other instance beside it
aloneSort(dir) == sort(original, getUniqueMetadatas(original), dir)

\* the instance's sort call is over and ended as the same call run alone ends
EndedAsAlone(s) ==
    s.pc \in {"done", "threw"} =>
        \E r \in {aloneSort(s.direction)} :
            /\ s.error = r.err
            /\ s.pc = "done" => s.result = r.returned

\* C11: two instances are made from the same array over the same schema and
\* the steps of their sort calls run in any interleaving; each call ends with
\* the ordering (or the error) it ends with when run alone, the caller's array
\* stays as the caller built it, and no step writes the schema.
C11_InterleavedSortsAsAlone ==
    /\ [](input = original /\ \A i \in Instances : EndedAsAlone(sorters[i]))
    /\ [][relations' = relations /\ parent' = parent]_vars

\* both calls are between their two passes at the same time, in different
\* directions, each having already moved subjects out of its own array
C11_Witness ==
    /\ sorters["first"].pc = "others"
    /\ sorters["second"].pc = "others"
    /\ sorters["first"].direction # sorters["second"].direction
    /\ sorters["first"].sortedSubjects # <<>>
    /\ sorters["second"].sortedSubjects # <<>>
    /\ sorters["first"].sortedSubjects # sorters["second"].sortedSubjects


\* ------------------------------------------------------------------ properties of the result cache

\* the last call was a lookup with key material and it resolved
LookupResolved ==
    op.name = "getFromCache" /\ op.status = "resolved" /\ op.key # ""

\* the backend answered the lookup while it held what a completed storeInCache
\* wrote under the key, not removed, cleared or expired since
LookupOfStored == LookupResolved /\ op.stored # {}

\* C12 as stated: a lookup of a stored key returns a record equal to the
\* options stored, whatever the result stored.
C12_RoundTripEqual == LookupOfStored => op.value = op.stored

\* the result as a JSON document carries it: Date cells as strings
asJsonCarries(x) ==
    IF x.t = "array" /\ x.v = "Date" THEN RowsOf("string") ELSE x

\* C12 amended: a lookup of a stored key, on either path, returns a record
\* whose identifier, query, time and duration are those stored and whose
\* result is the stored result with its Date cells turned into strings; it
\* equals the stored record when the result is plain JSON data.
C12_RoundTripAsJson ==
    LookupOfStored =>
        /\ op.style \in {"promise", "callback"}
        /\ \E o \in op.stored : \E v \in op.value :
               /\ op.value = {v}
               /\ v.identifier = o.identifier
               /\ v.query = o.query
               /\ v.time = o.time
               /\ v.duration = o.duration
               /\ v.result = asJsonCarries(o.result)
               /\ (o.result = RowsOf("string") => v = o)

\* a record stored after the clock moved, with identifier and query text, is
\* read back on the callback-style path
C12_Witness ==
    /\ LookupOfStored
    /\ op.style = "callback"
    /\ \E o \in op.stored :
           /\ o.time > 0
           /\ ~Falsy(o.identifier)
           /\ ~Falsy(o.query)
           /\ op.value = {o}


\* the last call was a lookup or a store whose options had no key material
\* (identifier and query text each undefined or empty)
CallWithoutKey == op.name \in {"getFromCache", "storeInCache"} /\ op.key = ""

\* C13: a getFromCache or storeInCache without key material resolves, the
\* lookup to absent, with no error; it hands no command to the client, so
\* nothing is in flight and the backend is not touched; this holds with and
\* without a connected client.
C13_NoKeyIsNoOp ==
    CallWithoutKey =>
        /\ op.status = "resolved"
        /\ op.value = {}
        /\ op.error = "none"
        /\ op.issued = <<>>
        /\ inflight = {}

\* a store without key material made while no client is connected, the
\* backend still holding what it held at the start
C13_Witness ==
    /\ CallWithoutKey
    /\ op.name = "storeInCache"
    /\ client = "undefined"
    /\ store["K1"] # {}
    /\ store["K2"] = {}


\* the record carries an identifier and a different query text
HasIdentifierAndQuery(o) ==
    ~Falsy(o.identifier) /\ ~Falsy(o.query) /\ o.identifier # o.query

\* C14: a record stored with identifier I and query text Q is kept under I
\* only: every lookup that returns it was made under key I, so a lookup under
\* Q returns absent unless something else was stored under Q.
C14_IdentifierTakesPrecedence ==
    LookupResolved =>
        /\ \A v \in op.value :
               HasIdentifierAndQuery(v) => op.key = v.identifier.v /\ op.key # v.query.v
        /\ op.stored = {} => op.value = {}

\* a lookup under K2 resolved to absent while the backend holds, under K1, a
\* record stored with identifier K1 and query text K2
C14_Witness ==
    /\ LookupResolved
    /\ op.key = "K2"
    /\ op.value = {}
    /\ \E o \in lastStored["K1"] :
           o.identifier = StringOf("K1") /\ o.query = StringOf("K2")
    /\ store["K1"] # {}


\* the record was stored with a query text and no identifier
StoredByQuery(o) == Falsy(o.identifier) /\ ~Falsy(o.query)

\* C15 as stated: identifiers and query texts are separate keyspaces; a lookup
\* by identifier never returns a record stored with a query text alone, a
\* lookup by query text never returns a record stored under an identifier,
\* and no delete answered for remove takes away a record stored with a query
\* text alone.
C15_DistinctKeyspaces ==
    /\ [](LookupResolved =>
              \A v \in op.value :
                  /\ op.by = "identifier" => ~StoredByQuery(v)
                  /\ op.by = "query" => StoredByQuery(v))
    /\ [][\A k \in CacheKeys :
              (/\ op.name = "remove"
               /\ inflight' # inflight
               /\ \E o \in lastStored[k] : StoredByQuery(o))
              => store'[k] = store[k]]_vars


\* the last call was a remove and it resolved
RemoveResolved == op.name = "remove" /\ op.status = "resolved"

\* C16: once remove(identifiers) has resolved the backend holds nothing under
\* any identifier of the list, whether or not it held something before, until
\* the next call; and a lookup answered while nothing has been stored under
\* its key since resolves to absent.
C16_RemovedIsAbsent ==
    /\ RemoveResolved =>
           \A n \in 1..Len(op.identifiers) :
               store[op.identifiers[n]] = {} /\ lastStored[op.identifiers[n]] = {}
    /\ (LookupResolved /\ op.stored = {}) => op.value = {}

\* remove(["K1", "K2"]) resolved on the promise-style path after both deletes
\* were handed to the client, in a database no clear has emptied
C16_Witness ==
    /\ RemoveResolved
    /\ op.style = "promise"
    /\ op.identifiers = <<"K1", "K2">>
    /\ Len(op.issued) = Len(op.identifiers)
    /\ store[ForeignKey] # {}


\* the last call was a clear and it resolved
ClearResolved == op.name = "clear" /\ op.status = "resolved"

\* C17: once clear() has resolved the backend database holds no key at all,
\* neither the keys the cache stored nor the keys of other users, so every
\* key stored before reads as absent.
C17_ClearFlushesDatabase ==
    ClearResolved =>
        /\ \A k \in BackendKeys : store[k] = {}
        /\ \A k \in CacheKeys : lastStored[k] = {}

\* clear() resolved on the callback-style path after one flush; the database
\* held the foreign key from the start until the flush
C17_Witness ==
    /\ ClearResolved
    /\ op.style = "callback"
    /\ op.issued = <<[cmd |-> "flush", key |-> ""]>>
    /\ store[ForeignKey] = {}


\* the last call was isExpired
ExpiryChecked == op.name = "isExpired"

\* C18: isExpired(entry) returns true exactly when entry.time + entry.duration
\* is below the clock reading of the call, and false when they are equal; the
\* call hands no command to the client, and the step that makes it changes
\* neither the backend, nor the client, nor the clock.
C18_ExpiredStrictlyAfterDeadline ==
    /\ [](ExpiryChecked =>
              /\ op.status = "returned"
              /\ op.issued = <<>>
              /\ \A e \in op.value : op.flag <=> e.time + e.duration < op.readAt)
    /\ [][(ExpiryChecked' /\ op' # op) =>
              UNCHANGED <<store, inflight, client, redisMajorVersion, lastStored, now>>]_vars

\* isExpired was asked at the very deadline of an entry with a positive
\* duration and answered false
C18_Witness ==
    /\ ExpiryChecked
    /\ ~op.flag
    /\ \E e \in op.value :
           e.duration > 0 /\ e.time + e.duration = op.readAt


\* the backend answered a command of the last call with an error
BackendFailed == op.failed

\* the commands one call hands to the client: one per identifier for remove,
\* one for every other call
CommandsOf(call) == IF call.name = "remove" THEN Len(call.identifiers) ELSE 1

\* C19: when the backend answers a get, set, del or flush with an error, the
\* getFromCache, storeInCache, remove or clear that sent it is rejected with
\* that error, on either path; it is not resolved (a lookup does not read as
\* absent), and no command is sent again: the call has handed over its one
\* command per key and only deletes of the same remove may still be in flight.
C19_BackendErrorRejects ==
    BackendFailed =>
        /\ op.name \in {"getFromCache", "storeInCache", "remove", "clear"}
        /\ op.style \in {"promise", "callback"}
        /\ op.status = "rejected"
        /\ op.error = "BackendError"
        /\ Len(op.issued) = CommandsOf(op)
        /\ \A c \in inflight :
               /\ op.name = "remove"
               /\ c.idx \in 1..Len(op.issued)
               /\ op.issued[c.idx] = [cmd |-> c.cmd, key |-> c.key]

\* the backend failed the get of a lookup on the promise-style path while it
\* held a record stored under the key
C19_Witness ==
    /\ BackendFailed
    /\ op.name = "getFromCache"
    /\ op.style = "promise"
    /\ op.status = "rejected"
    /\ lastStored[op.key] # {}
    /\ store[op.key] # {}


\* the backend answered the get of the last lookup, without error, with a
\* text that is no JSON document
UnparsableAnswered ==
    /\ op.name = "getFromCache"
    /\ op.issued # <<>>
    /\ inflight = {}
    /\ ~op.failed
    /\ \E e \in store[op.key] : ~e.text.parsable

\* C20 as stated: a lookup answered with a text that does not parse is
\* rejected; it is neither resolved to absent nor left pending, on either
\* path.
C20_UnparsableRejects == UnparsableAnswered => op.status = "rejected"


\* the calls that are dispatched through a calling convention
DispatchedCalls == {"getFromCache", "storeInCache", "remove", "clear"}

\* the call was dispatched: it got as far as choosing a convention
Dispatched(call) == call.name \in DispatchedCalls /\ call.style # "none"

\* C21: what decides the calling convention (this.redisMajorVersion, with the
\* client type) is written only by a connect() that completes; no lookup,
\* store, remove, clear, isExpired or disconnect writes it, every dispatched
\* call goes through the convention in force, and two dispatched calls with no
\* connect or disconnect between them go through the same convention.
C21_ConventionFixedByConnect ==
    /\ [](Dispatched(op) => op.style = styleNow)
    /\ [][redisMajorVersion' # redisMajorVersion =>
              op'.name = "connect" /\ op'.status = "resolved"]_vars
    /\ [][(Dispatched(op) /\ Dispatched(op')) => op'.style = op.style]_vars

\* a remove resolved on the promise-style path, by the client of a completed
\* connect, after a store in the same convention left its record in the backend
C21_Witness ==
    /\ op.name = "remove"
    /\ op.status = "resolved"
    /\ op.style = "promise"
    /\ client = "client"
    /\ redisMajorVersion = Redis5
    /\ \E k \in CacheKeys : lastStored[k] # {}


\* the last call was a lookup that was handed to the client
LookupSent == op.name = "getFromCache" /\ Dispatched(op) /\ op.status # "threw"

\* C22: a lookup hands exactly one get to the client and nothing else; the
\* steps of a lookup (the call, the reply) leave the backend as it is; and a
\* lookup answered while the backend holds a stored record returns a record,
\* also when isExpired reports that record stale.
C22_LookupOnlyReads ==
    /\ []((LookupSent /\ client # "undefined") =>
              /\ op.issued = <<[cmd |-> "get", key |-> op.key]>>
              /\ \A c \in inflight : c.cmd = "get" /\ c.key = op.key)
    /\ [](LookupOfStored => op.value # {})
    /\ [][(op'.name = "getFromCache" /\ op' # op) =>
              UNCHANGED <<store, lastStored>>]_vars

\* a lookup returned a record that isExpired reports stale, and the backend
\* still holds it
C22_Witness ==
    /\ LookupOfStored
    /\ \E v \in op.value : isExpired(v, now)
    /\ store[op.key] # {}
    /\ lastStored[op.key] = op.stored


\* the call is a cache operation on a key: a lookup or a store whose options
\* name one, or a remove of at least one identifier
Keyed(call) ==
    /\ Dispatched(call)
    /\ \/ call.name \in {"getFromCache", "storeInCache"}
       \/ call.name = "remove" /\ call.identifiers # <<>>

\* C23: once disconnect resolved the cache holds no client, and every later
\* operation on a key fails without handing a command to the released client;
\* a disconnect whose quit failed rejects with the backend's error and keeps
\* the client.
C23_DisconnectReleasesClient ==
    /\ []((op.name = "disconnect" /\ op.status = "resolved") => client = "undefined")
    /\ [][(client = "undefined" /\ op' # op /\ Keyed(op')) =>
              /\ op'.status \in {"threw", "rejected"}
              /\ op'.error = "TypeError"
              /\ op'.issued = <<>>
              /\ inflight' = {}
              /\ UNCHANGED <<store, client>>]_vars
    /\ [][(client # "undefined" /\ op'.name = "disconnect" /\ op'.status = "rejected") =>
              op'.error = "BackendError" /\ client' = client]_vars

\* a lookup of a stored key failed after the cache was connected and
\* disconnected again
C23_Witness ==
    /\ op.name = "getFromCache" /\ Keyed(op)
    /\ op.status \in {"threw", "rejected"}
    /\ client = "undefined"
    /\ redisMajorVersion # NoVersion
    /\ lastStored[op.key] # {}


\* call i is made on this step
Made(i) == invocations[i].pc = "idle" /\ invocations'[i].pc # "idle"

\* this step hands nothing to the connection, leaves the queue of the lock
\* alone and leaves the transaction state of the runner as it is
NothingDone ==
    UNCHANGED <<executing, lock, isTransactionActive, autoCommit, databaseConnection>>

RefusedAsReleased(inv) ==
    inv.status = "rejected" /\ inv.error = "QueryRunnerAlreadyReleasedError"

\* C24: isReleased is set as soon as release is called and never cleared;
\* from then on a call of query, stream, startTransaction, commitTransaction
\* or rollbackTransaction rejects with QueryRunnerAlreadyReleasedError on the
\* step it is made, hands no statement to the connection and leaves
\* isTransactionActive as it is; and a call in progress that reaches query
\* is refused in the same way.
C24_ReleasedRunnerRefuses ==
    /\ [](isReleased <=> \E i \in Calls : invocations[i].method = "release")
    /\ [][\A i \in Calls :
              (isReleased /\ Made(i) /\ invocations'[i].method \in GuardedMethods) =>
                  RefusedAsReleased(invocations'[i]) /\ NothingDone]_vars
    /\ [][\A i \in Calls :
              (isReleased /\ invocations[i].pc \notin {"idle", "done", "acquire"}) =>
                  invocations'[i].pc # "acquire"]_vars
    /\ [][\A i \in Calls :
              (~RefusedAsReleased(invocations[i]) /\ RefusedAsReleased(invocations'[i])) =>
                  /\ isReleased
                  /\ executing' \subseteq executing
                  /\ UNCHANGED <<lock, isTransactionActive>>]_vars

\* a commit was refused on a released runner whose transaction is active
C24_Witness ==
    \E i \in Calls :
        /\ invocations[i].method = "commitTransaction"
        /\ RefusedAsReleased(invocations[i])
        /\ isReleased
        /\ isTransactionActive
        /\ databaseConnection = "connection"

EndingMethods == {"commitTransaction", "rollbackTransaction"}

RefusedAsNotStarted(inv) ==
    inv.status = "rejected" /\ inv.error = "TransactionNotStartedError"

\* call i, a commit or a rollback, resolves on this step
EndingResolves(i) ==
    /\ invocations[i].method \in EndingMethods
    /\ invocations[i].status = "pending"
    /\ invocations'[i].status = "resolved"

\* C25 as stated: a commit or rollback called while no transaction is active
\* rejects with TransactionNotStartedError and does nothing; when a commit or
\* rollback resolves, isTransactionActive is false and autocommit is on.
C25_NotStartedOrEnded ==
    /\ [][\A i \in Calls :
              (~isTransactionActive /\ Made(i)
                  /\ invocations'[i].method \in EndingMethods) =>
                  RefusedAsNotStarted(invocations'[i]) /\ NothingDone]_vars
    /\ [][\A i \in Calls :
              EndingResolves(i) => ~isTransactionActive' /\ autoCommit' = "on"]_vars

\* C25, amended: on a runner that was not released, a commit or rollback
\* called while no transaction is active rejects with
\* TransactionNotStartedError, and on a released runner with
\* QueryRunnerAlreadyReleasedError, in both cases doing nothing; when a
\* commit or rollback resolves and no other call wrote the transaction state
\* of the runner while it ran, isTransactionActive is false and autocommit is
\* on.
C25_NotStartedUnlessReleased ==
    /\ [][\A i \in Calls :
              (~isTransactionActive /\ Made(i)
                  /\ invocations'[i].method \in EndingMethods) =>
                  /\ NothingDone
                  /\ IF isReleased THEN RefusedAsReleased(invocations'[i])
                     ELSE RefusedAsNotStarted(invocations'[i])]_vars
    /\ [][\A i \in Calls :
              (EndingResolves(i) /\ ~invocations[i].interfered) =>
                  ~isTransactionActive' /\ autoCommit' = "on"]_vars

\* a commit was refused for want of a transaction, and a rollback ended one
C25_Witness ==
    \E i, j \in Calls :
        /\ invocations[i].method = "rollbackTransaction"
        /\ invocations[i].status = "resolved"
        /\ invocations[j].method = "commitTransaction"
        /\ RefusedAsNotStarted(invocations[j])
        /\ i < j
        /\ ~isTransactionActive
        /\ autoCommit = "on"
        /\ ~isReleased


\* the nodes of the edge list
NodesOfGraph == { graph[k][1] : k \in 1..Len(graph) } \cup { graph[k][2] : k \in 1..Len(graph) }

\* the edge list has no cycle: its nodes can be ranked so that every edge
\* leads to a higher rank
AcyclicGraph ==
    \E rank \in [GraphNodes -> 1..Cardinality(GraphNodes)] :
        \A k \in 1..Len(graph) : rank[graph[k][1]] < rank[graph[k][2]]

\* toposort was applied to an edge list without a cycle
SortedAcyclic == order.applied /\ AcyclicGraph

\* C26: for an edge list without a cycle toposort returns, without throwing,
\* an array as long as there are distinct nodes, without an unfilled slot,
\* holding every node exactly once, every edge's from at a lower index than
\* its to.
C26_ToposortOrdersEdges ==
    SortedAcyclic =>
        /\ order.err = NoError
        /\ Len(order.sorted) = Cardinality(NodesOfGraph)
        /\ \A k \in 1..Len(order.sorted) : order.sorted[k] # Hole
        /\ \A node \in NodesOfGraph : Occurrences(order.sorted, node) = 1
        /\ \A k \in 1..Len(graph) :
               IndexOf(order.sorted, graph[k][1]) < IndexOf(order.sorted, graph[k][2])

\* B -> C, A -> B, A -> C is sorted as A, B, C
C26_Witness ==
    /\ order.applied
    /\ graph = << <<"B", "C">>, <<"A", "B">>, <<"A", "C">> >>
    /\ order.sorted = <<"A", "B", "C">>

\* C27 as stated: in the array toposort returns for edges (dependent,
\* dependency), every edge's dependency comes before its dependent.
C27_RawListsDependencyFirst ==
    SortedAcyclic =>
        \A k \in 1..Len(graph) :
            IndexOf(order.sorted, graph[k][2]) < IndexOf(order.sorted, graph[k][1])

\* C27, amended: in the array toposort returns for edges (dependent,
\* dependency), every edge's dependent comes before its dependency; this is
\* the order used for delete, and the reversal made for insert puts every
\* dependency before its dependent.
C27_RawListsDependentFirst ==
    SortedAcyclic =>
        \A k \in 1..Len(graph) :
            LET dependent == graph[k][1]
                dependency == graph[k][2]
                raw == order.sorted
            IN  /\ IndexOf(raw, dependent) < IndexOf(raw, dependency)
                /\ IndexOf(orient(raw, "delete"), dependent)
                       < IndexOf(orient(raw, "delete"), dependency)
                /\ IndexOf(orient(raw, "insert"), dependency)
                       < IndexOf(orient(raw, "insert"), dependent)

\* C depends on B and B on A: the raw array is C, B, A
C27_Witness ==
    /\ order.applied
    /\ graph = << <<"C", "B">>, <<"B", "A">> >>
    /\ order.sorted = <<"C", "B", "A">>
    /\ orient(order.sorted, "insert") = <<"A", "B", "C">>

\* the ends of the edges as the list is read: from, then to, edge by edge
EndsOfGraph ==
    [k \in 1..(2 * Len(graph)) |->
        IF k % 2 = 1 THEN graph[(k + 1) \div 2][1] ELSE graph[k \div 2][2]]

\* where a node is seen first
FirstSeenAt(node) ==
    CHOOSE k \in 1..Len(EndsOfGraph) :
        EndsOfGraph[k] = node /\ \A j \in 1..(k - 1) : EndsOfGraph[j] # node

\* arr lists the nodes of the graph, each once, in the order they are first seen
InFirstSeenOrder(arr) ==
    /\ Len(arr) = Cardinality(NodesOfGraph)
    /\ ElementsOf(arr) = NodesOfGraph
    /\ \A a, b \in 1..Len(arr) : a < b => FirstSeenAt(arr[a]) < FirstSeenAt(arr[b])

\* every edge's from node is first seen before its to node
FromSeenFirst ==
    \A k \in 1..Len(graph) : FirstSeenAt(graph[k][1]) < FirstSeenAt(graph[k][2])

\* the node a descent from node ends in when it follows the last outgoing
\* edge at every node
RECURSIVE LastDescentFrom(_, _)
LastDescentFrom(node, fuel) ==
    LET outgoing == SelectSeq(graph, LAMBDA edge : edge[1] = node)
    IN  IF fuel = 0 \/ Len(outgoing) = 0 THEN node
        ELSE LastDescentFrom(outgoing[Len(outgoing)][2], fuel - 1)

\* C29: the nodes are discovered in first-seen order; the last slot of the
\* result holds the node in which the descent from the last discovered node
\* along last outgoing edges ends, the root taken first filling the array from
\* its end; and when every edge's from node is first seen before its to node,
\* toposort returns the nodes in first-seen order.
C29_TieBreakFirstSeen ==
    /\ InFirstSeenOrder(uniqueNodes(graph))
    /\ (SortedAcyclic /\ graph # <<>>) =>
           LET nodes == uniqueNodes(graph)
           IN  order.sorted[Len(order.sorted)] =
                   LastDescentFrom(nodes[Len(nodes)], Len(graph))
    /\ (order.applied /\ FromSeenFirst) =>
           /\ order.err = NoError
           /\ InFirstSeenOrder(order.sorted)

\* A -> B, C -> D comes back as A, B, C, D
C29_Witness ==
    /\ order.applied
    /\ graph = << <<"A", "B">>, <<"C", "D">> >>
    /\ FromSeenFirst
    /\ order.sorted = <<"A", "B", "C", "D">>


\* what sort returns when its second pass pulls the groups as its first pass
\* does, by own target name or by a name in the inheritance tree
SecondPassByInheritance(dir) ==
    LET metas == getUniqueMetadatas(original)
        w0 == [subjects |-> original, sortedSubjects |-> <<>>, err |-> NoError]
        w2 == nonNullablePass(junctionStep(w0, dir), metas, dir)
        topo == toposort(getDependencies(metas).edges)
        w3 == pullGroups(w2, orient(topo.sorted, dir), 1, TRUE)
    IN  w3.sortedSubjects \o w3.subjects

\* C28: the second pass pulls a remaining subject into the group of a sorted
\* target name when its own targetName is that name or its inheritance tree
\* contains it, as the non-nullable pass does; the array returned is the one
\* such a second pass yields.
C28_SecondPassMatchesInheritance ==
    (FirstSort /\ Returned /\ Len(metadatas) > 0)
    => result = SecondPassByInheritance(direction)


\* the names that are nodes of the non-nullable dependency graph
NonNullableNodes == { pair[1] : pair \in NonNullableGraph } \cup { pair[2] : pair \in NonNullableGraph }

\* the subject's targetName or the name of an ancestor is such a node
MatchedNonNullable(subject) ==
    \E name \in NonNullableNodes : Includes(inheritanceTree(subject.metadata), name)

\* the subject is taken by the junction step, ahead of both passes
TakenAsJunction(subject) == direction = "delete" /\ subject.junction

\* C30: in the array sort returns, for insert and for delete, every subject
\* that is no junction subject and whose targetName or ancestor name is a node
\* of the non-nullable graph comes before every subject the junction step did
\* not take that is matched in the second pass only or left over.
C30_NonNullableGroupsFirst ==
    (FirstSort /\ Returned /\ AllCarryMetadata)
    => \A i, j \in 1..Len(result) :
           (/\ ~result[i].junction
            /\ MatchedNonNullable(result[i])
            /\ ~TakenAsJunction(result[j])
            /\ ~MatchedNonNullable(result[j]))
           => i < j

\* [a, b, c] with A nullably referencing B and B non-nullably referencing C
\* is deleted as b, c, a
C30_Witness ==
    /\ FirstSort /\ Returned /\ direction = "delete"
    /\ Len(original) = 3
    /\ \A k \in 1..3 : ~original[k].junction
    /\ original[1].metadata = "A" /\ original[2].metadata = "B" /\ original[3].metadata = "C"
    /\ DeclaredRelations = {[from |-> "A", to |-> "B", isNullable |-> TRUE],
                            [from |-> "B", to |-> "C", isNullable |-> FALSE]}
    /\ \A e \in Names : parent[e] = NoParent
    /\ result = <<original[2], original[3], original[1]>>


\* the sorted entity targets of the two passes of the sort that returned
FirstPassTargets ==
    orient(toposort(getNonNullableDependencies(getUniqueMetadatas(original)).edges).sorted,
           direction)

SecondPassTargets ==
    orient(toposort(getDependencies(getUniqueMetadatas(original)).edges).sorted, direction)

\* the first target of the pass that pulls the subject, 0 when none does
FirstPull(targets, subject, withInheritance) ==
    LET pulls(k) == IF withInheritance THEN matchesNonNullableTarget(subject, targets[k])
                    ELSE matchesOtherTarget(subject, targets[k])
    IN  IF \E k \in 1..Len(targets) : pulls(k)
        THEN CHOOSE k \in 1..Len(targets) : pulls(k) /\ \A j \in 1..(k - 1) : ~pulls(j)
        ELSE 0

LeftOver == <<3, 0>>

\* the group a subject is pulled into: the junction step, a target of the
\* first pass, a target of the second pass, or the left-overs
GroupOf(subject) ==
    IF TakenAsJunction(subject) THEN <<0, 0>>
    ELSE IF FirstPull(FirstPassTargets, subject, TRUE) > 0
    THEN <<1, FirstPull(FirstPassTargets, subject, TRUE)>>
    ELSE IF FirstPull(SecondPassTargets, subject, FALSE) > 0
    THEN <<2, FirstPull(SecondPassTargets, subject, FALSE)>>
    ELSE LeftOver

\* C31: in the array sort returns, the subjects of one group are in the
\* relative order of the caller's array, each once; the left-overs come after
\* every other subject, in the relative order of the caller's array, and the
\* targetName of a left-over is on no dependency edge.
C31_GroupsKeepInputOrder ==
    (FirstSort /\ Returned /\ AllCarryMetadata)
    => /\ \A i, j \in 1..Len(result) :
              (i < j /\ GroupOf(result[i]) = GroupOf(result[j]))
              => PositionOf(original, result[i].id) < PositionOf(original, result[j].id)
       /\ \A i, j \in 1..Len(result) :
              (GroupOf(result[i]) = LeftOver /\ GroupOf(result[j]) # LeftOver) => j < i
       /\ \A i \in 1..Len(result) :
              GroupOf(result[i]) = LeftOver
              => \A pair \in NonNullableGraph \cup FullGraph :
                     result[i].metadata \notin {pair[1], pair[2]}

\* [a1, b, a2] with A non-nullably referencing C is inserted as a1, a2, b
C31_Witness ==
    /\ FirstSort /\ Returned /\ direction = "insert"
    /\ Len(original) = 3
    /\ original[1].metadata = "A" /\ original[2].metadata = "B" /\ original[3].metadata = "A"
    /\ DeclaredRelations = {[from |-> "A", to |-> "C", isNullable |-> FALSE]}
    /\ \A e \in Names : parent[e] = NoParent
    /\ result = <<original[1], original[3], original[2]>>
    /\ GroupOf(original[2]) = LeftOver


\* the entity or one of its ancestors is a node of the non-nullable graph
InNonNullableGraph(name) ==
    \E node \in NonNullableNodes : Includes(inheritanceTree(name), node)

\* the nullable relations between distinct entities that the first pass has
\* nothing to do with
NullableOnlyRelations ==
    { r \in DeclaredRelations : /\ r.isNullable
                                /\ r.from # r.to
                                /\ ~InNonNullableGraph(r.from)
                                /\ ~InNonNullableGraph(r.to) }

\* C32 as stated: for such a relation from M to N every subject of N comes
\* before every subject of M on insert, and every subject of M before every
\* subject of N on delete.
C32_NullableDependencyOrder ==
    (FirstSort /\ Returned)
    => \A r \in NullableOnlyRelations :
           /\ direction = "insert"
              => AllBefore(result, SubjectsOf({r.to}), SubjectsOf({r.from}))
           /\ direction = "delete"
              => AllBefore(result, SubjectsOf({r.from}), SubjectsOf({r.to}))

\* C32, amended: on insert as stated; on delete every subject of M that is
\* no junction subject comes before every subject of N that is no junction
\* subject, the junction subjects being placed first whatever their entity.
C32_NullableOwnedDependencyOrder ==
    (FirstSort /\ Returned)
    => \A r \in NullableOnlyRelations :
           /\ direction = "insert"
              => AllBefore(result, SubjectsOf({r.to}), SubjectsOf({r.from}))
           /\ direction = "delete"
              => /\ AllBefore(result, OwnedSubjectsOf({r.from}), OwnedSubjectsOf({r.to}))
                 /\ AllBefore(result, ElementsOf(JunctionPart(result)),
                              ElementsOf(result) \ ElementsOf(JunctionPart(result)))

\* [a, b] with A nullably referencing B is inserted as b, a
C32_Witness ==
    /\ FirstSort /\ Returned /\ direction = "insert"
    /\ Len(original) = 2
    /\ original[1].metadata = "A" /\ original[2].metadata = "B"
    /\ relations = <<[from |-> "A", to |-> "B", isNullable |-> TRUE]>>
    /\ \A e \in Names : parent[e] = NoParent
    /\ result = <<original[2], original[1]>>


\* the set method of the client declares at most three parameters
SetOfFewParameters ==
    library.setLength # NoSetMethod /\ library.setLength <= PromiseSetArity

\* connect ran to its end on a "redis" client: detectRedisVersion recorded a
\* version
VersionDetected == redisMajorVersion # NoVersion

\* C33: a dispatched call takes the promise-style path exactly when the
\* client type is "redis" and the set method of the connected client declares
\* at most three parameters; every "redis" client with a longer set or none,
\* and every "ioredis" and "ioredis/cluster" client, is driven through the
\* callback-style path.
C33_PromisePathBySetSignature ==
    /\ (op.name = "connect" /\ op.status = "resolved" /\ clientType = "redis")
       => VersionDetected
    /\ clientType # "redis" => ~VersionDetected
    /\ VersionDetected => (redisMajorVersion = Redis5 <=> SetOfFewParameters)
    /\ Dispatched(op)
       => /\ op.style = "promise"
             <=> (clientType = "redis" /\ VersionDetected /\ SetOfFewParameters)
          /\ (clientType = "redis" /\ VersionDetected /\ ~SetOfFewParameters)
             => op.style = "callback"
          /\ clientType \in {"ioredis", "ioredis/cluster"} => op.style = "callback"

\* a lookup answered on the promise-style path by a "redis" client whose set
\* declares exactly three parameters
C33_Witness ==
    /\ clientType = "redis"
    /\ library.setLength = PromiseSetArity
    /\ client = "client"
    /\ op.name = "getFromCache"
    /\ op.status = "resolved"
    /\ op.style = "promise"


\* call i is in the queue of the lock
InLock(i) == \E k \in 1..Len(lock) : lock[k] = i

\* query() of call i finished: its promise is settled
QueryFinished(i) ==
    /\ invocations[i].method = "query"
    /\ invocations[i].status \in {"resolved", "rejected"}

\* C34: the lock acquired by query() is released on every way query() can
\* finish, so that no finished query() holds the lock and a later query() is
\* not kept waiting for it for ever.
C34_LockReleasedWhenQueryFinishes ==
    \A i \in Calls : QueryFinished(i) => ~InLock(i)


\* C35: when the relations between distinct entities, nullable or not, form a
\* cycle over the entities of the subjects, sort throws the cyclic-dependency
\* error and returns no ordering, also when the non-nullable relations alone
\* form none.
C35_FullGraphCycleThrows ==
    (FirstSort /\ AllCarryMetadata /\ ~Acyclic(FullGraph))
    => /\ Threw
       /\ error.kind = "CyclicDependency"
       /\ result = <<>>

\* A nullably references B and B nullably references A: the first pass finds
\* nothing, the second one throws
C35_Witness ==
    /\ FirstSort /\ AllCarryMetadata
    /\ DeclaredRelations = {[from |-> "A", to |-> "B", isNullable |-> TRUE],
                            [from |-> "B", to |-> "A", isNullable |-> TRUE]}
    /\ NonNullableGraph = {}
    /\ Threw
    /\ error.kind = "CyclicDependency"


\* C36: on insert, for every non-nullable relation from entity M to a
\* different entity N, no subject of M is placed before a subject of N, also
\* when the inheritance tree of M names another node of the non-nullable
\* graph.
C36_InsertDependencyFirstWhenDerived ==
    (FirstSort /\ Returned /\ direction = "insert")
    => \A r \in DeclaredRelations :
           (~r.isNullable /\ r.from # r.to)
           => AllBefore(result, SubjectsOf({r.to}), SubjectsOf({r.from}))


\* the subjects no step of the first sort pulled, in the order of the
\* constructor input
LeftOverSubjects == SelectSeq(original, LAMBDA subject : GroupOf(subject) = LeftOver)

\* arr ends with brr
EndsWith(arr, brr) ==
    /\ Len(brr) <= Len(arr)
    /\ \A k \in 1..Len(brr) : arr[Len(arr) - Len(brr) + k] = brr[k]

\* C37: sort consumes the working list of the instance: when it returns, the
\* subjects field holds only the subjects appended in the left-over step,
\* every subject placed by the junction step or by a pass being removed, and
\* a second sort on the same instance returns those left-over subjects only,
\* not a permutation of the constructor input.
C37_SortConsumesWorkingList ==
    /\ [](Returned => EndsWith(result, thisSubjects))
    /\ []((FirstSort /\ Returned /\ AllCarryMetadata) => thisSubjects = LeftOverSubjects)
    /\ [][(Returned /\ calls = 1 /\ calls' = 2 /\ pc' = "done")
          => /\ IsPermutation(result', thisSubjects)
             /\ Len(thisSubjects) < Len(original) => ~IsPermutation(result', original)]_vars

\* [a, b, c] with A non-nullably referencing B: the first sort places a and
\* b, and the second one returns c alone
C37_Witness ==
    /\ calls = 2 /\ Returned
    /\ Len(original) = 3
    /\ original[1].metadata = "A" /\ original[2].metadata = "B" /\ original[3].metadata = "C"
    /\ relations = <<[from |-> "A", to |-> "B", isNullable |-> FALSE]>>
    /\ result = <<original[3]>>
    /\ thisSubjects = <<original[3]>>


\* the last call is a remove
Removing == op.name = "remove"

\* C38: remove(identifiers) hands one delete per identifier to the client,
\* all of them before any is answered; when a delete fails remove rejects
\* with that error, the other deletes stay in flight and are carried out, and
\* no key deleted is restored.
C38_RemoveIsNotAtomic ==
    /\ [][(inflight = {} /\ inflight' # {} /\ Removing')
          => /\ Len(op'.issued) = Len(op'.identifiers)
             /\ \A k \in 1..Len(op'.identifiers) :
                    /\ op'.issued[k] = [cmd |-> "del", key |-> op'.identifiers[k]]
                    /\ \E c \in inflight' :
                           c.idx = k /\ c.cmd = "del" /\ c.key = op'.identifiers[k]
             /\ Cardinality(inflight') = Len(op'.identifiers)
             /\ store' = store]_vars
    /\ []((Removing /\ BackendFailed)
          => op.status = "rejected" /\ op.error = "BackendError")
    /\ [][(Removing /\ ~BackendFailed /\ BackendFailed')
          => /\ inflight' \subseteq inflight
             /\ Cardinality(inflight') = Cardinality(inflight) - 1
             /\ store' = store]_vars
    /\ [][(Removing /\ BackendFailed /\ inflight # {} /\ inflight' # inflight)
          => /\ op' = op
             /\ \E c \in inflight :
                    /\ inflight' = inflight \ {c}
                    /\ store' = store \/ store' = [store EXCEPT ![c.key] = {}]]_vars
    /\ [][(Removing /\ inflight # {})
          => \A k \in BackendKeys : store[k] = {} => store'[k] = {}]_vars

\* remove(["K1", "K2"]) was rejected: the delete of K2 failed and its record
\* is still held, while the delete of K1 was carried out
C38_Witness ==
    /\ Removing
    /\ op.identifiers = <<"K1", "K2">>
    /\ op.status = "rejected"
    /\ op.error = "BackendError"
    /\ inflight = {}
    /\ store["K1"] = {}
    /\ store["K2"] # {}


\* the positions of query() and stream() between the grant of the lock and
\* its release; an open stream keeps the lock until it closes
LockedPositions ==
    {"connect", "beforeQuery", "prepareStatement", "exec", "drop", "wait",
     "prepare", "executeQuery", "open"}

\* call i is between acquiring and releasing the lock
HoldsLock(i) == invocations[i].pc \in LockedPositions

\* the statements of query() and stream() the connection is working on
LockedStatements ==
    { e \in executing : invocations[e.by].pc \in LockedPositions }

\* at most one call is between acquiring and releasing the lock, and the
\* connection works on at most one statement of query() and stream()
OneCallAtATime ==
    /\ Cardinality({ i \in Calls : HoldsLock(i) }) <= 1
    /\ Cardinality(LockedStatements) <= 1

\* C39: on one query runner at most one query() or stream() call is between
\* acquiring and releasing the lock, their statements never overlap on the
\* connection, and once release() has been called no statement is started on
\* the connection, not even by a query() that was waiting for the lock.
C39_OneCallAtATimeNoneAfterRelease ==
    /\ []OneCallAtATime
    /\ [][isReleased => executing' \subseteq executing]_vars

====
